---- MODULE Spec2Model ----
(***************************************************************************)
(* Model of the streaming inference loop of looped-local.                  *)
(*                                                                         *)
(* runLoop (src/lib/engine/loop.ts) is an async generator.  Every yield    *)
(* and every await of the generator is one labelled step of the model      *)
(* (variable pc); the provider's event stream and the tool registry are    *)
(* the environment and choose their outcomes nondeterministically.         *)
(*                                                                         *)
(* Text contents (thinking, text_delta, text) are sequences of characters; *)
(* message texts, tool results and ids are strings.  An optional value     *)
(* (string | null) is a sequence of length at most one.                    *)
(***************************************************************************)
EXTENDS Naturals, Integers, Sequences, FiniteSets, TLC

VARIABLES
    pc,               \* position of the generator body
    maxIterations,    \* config.maxIterations
    systemPrompt,     \* config.systemPrompt ("" when absent)
    messages0,        \* the caller's messages as they were when runLoop was called
    heap,             \* the arrays alive: heap.messages (caller's), heap.ctx (fresh)
    ctxRef,           \* the array the local `ctx` refers to
    iteration,        \* loop counter of the for loop
    toolCalls,        \* <<>> for null, <<batch>> once a tool_calls event arrived
    accumulatedText,  \* text_delta contents of the current turn
    callIdx,          \* index in the batch of the call being processed
    result,           \* result string of the call being processed
    events,           \* every LoopEvent yielded so far, in order
    streamCount,      \* thinking / text_delta events the provider has produced
    provided,         \* per provider.chat call, the events its stream has produced
    chatLog,          \* the message list of every provider.chat call, in order
    execLog,          \* every registry.execute call started, in order
    inFlight,         \* batch indices whose registry.execute has not settled
    pending,          \* <<>>, or the outcome of the latest registry.execute of this turn
    thrown,           \* <<>>, or the record of the provider's throw
    \* the think-tag machine (processThinkChunk), fed one content in chunks
    tagTokens,        \* the content, as the pieces it was put together from
    tagPos,           \* characters of the content consumed so far
    machine,          \* ThinkMachineState: [state, buf]
    segments,         \* the events yielded so far, adjacent events of one type merged
    \* OllamaProvider.chat, from the first frame on (it shares `machine`)
    chatFrames,       \* the frames parseNDJSON yields for the response body
    chatIdx,          \* frames consumed so far
    chatPc,           \* "frames", "returned" (after tool_calls) or "ended"
    chatOut,          \* the ProviderEvents yielded so far, in order
    pushed,           \* the contents handed to processThinkChunk, in order
    \* parseNDJSON
    ndBytes,          \* the bytes of the response body
    ndPos,            \* bytes the reader has delivered so far
    ndPending,        \* bytes of an incomplete character held by the TextDecoder
    buffer,           \* decoded text after the last newline seen
    ndFrames,         \* the frames yielded so far, in order
    ndPc,             \* "reading", "done" or "returned" (closed by its consumer)
    ndReader,         \* the body's reader: "none", "open" (locked, body not at its end) or "ended"
    \* serializeMessages, applied to one message list
    serMessages,      \* the Message[] handed to serializeMessages
    serWire,          \* the wire messages returned, <<>> before the call
    serPc,            \* "idle", "call" or "done"
    \* loopToSSEStream: the wrapped generator, the stream and its consumer
    genScript,        \* the wrapped generator: the events it yields, what it throws after them
    genPos,           \* number of events the generator has yielded
    genState,         \* "suspended", "running" (a next() in flight) or "completed"
    onCancelGiven,    \* whether loopToSSEStream got an onCancel
    onCancelCalls,    \* number of calls of onCancel
    stState,          \* "idle", "readable", "closing", "closed" or "cancelled"
    stQueue,          \* the frames enqueued and not yet read
    delivered,        \* the frames the consumer has read, in order
    lateSteps,        \* number of steps the generator took after the stream was cancelled
    \* the message store (db/queries.ts)
    dbConversations,  \* the ids of the conversation rows
    dbMessages,       \* the message rows, in insert order
    dbNextId,         \* number of ids crypto.randomUUID() has given to conversations
    dbLast,           \* the last call of a query function and how it ended
    dbReturned,       \* the messages the last call returned, when it was getConversationWithMessages
    \* the chat route (api/chat/route.ts): one POST request
    rtPc,             \* "idle", "start", "running" (streaming), "failed" (500) or "cancelled"
    rtConv,           \* convId, 0 before it is set
    rtPos,            \* number of events of the loop that tracked() has handled
    assistantContent, \* the text accumulated for the final assistant message
    dbDown,           \* whether inserts into the message store fail
    \* the useAgentChat hook (hooks/use-agent-chat.ts): one mounted instance
    status,           \* status and statusRef.current, which are always assigned together
    chatMessages,     \* the messages state (ChatMessage[]): id, role and content
    fetchCount,       \* number of POST /api/chat requests issued
    invocations,      \* the calls of sendMessage that passed the guard, each with its position
    sendLog           \* for every call of sendMessage, whether it was "accepted" or "ignored"

loopVars == << pc, maxIterations, systemPrompt, messages0, heap, ctxRef, iteration,
               toolCalls, accumulatedText, callIdx, result, events, streamCount,
               provided, chatLog, execLog, inFlight, pending, thrown >>

tagVars == << tagTokens, tagPos, machine, segments >>

chatVars == << chatFrames, chatIdx, chatPc, chatOut, pushed >>

ndVars == << ndBytes, ndPos, ndPending, buffer, ndFrames, ndPc, ndReader >>

\* the state of the Ollama provider's parts, which runLoop never touches
providerVars == << tagVars, chatVars, ndVars >>

serVars == << serMessages, serWire, serPc >>

sseVars == << genScript, genPos, genState, onCancelGiven, onCancelCalls, stState, stQueue,
              delivered, lateSteps >>

dbVars == << dbConversations, dbMessages, dbNextId, dbLast, dbReturned >>

routeVars == << rtPc, rtConv, rtPos, assistantContent, dbDown >>

hookVars == << status, chatMessages, fetchCount, invocations, sendLog >>

\* the state of the parts around the loop and the provider
appVars == << serVars, sseVars, dbVars, routeVars, hookVars >>

vars == << loopVars, providerVars, appVars >>

----------------------------------------------------------------------------
(* Bounds of the model *)

MaxIter == 2      \* largest config.maxIterations tried
MaxCalls == 2     \* most tool calls the provider requests in one invocation
MaxStream == 2    \* most thinking / text_delta events the provider yields in one invocation

----------------------------------------------------------------------------
(* Data *)

RECURSIVE SeqsUpTo(_, _)
SeqsUpTo(S, n) ==
    IF n = 0 THEN { <<>> }
    ELSE LET shorter == SeqsUpTo(S, n - 1)
         IN  shorter \cup { Append(s, x) : s \in { t \in shorter : Len(t) = n - 1 }, x \in S }

\* engine/types.ts Message, as the loop builds it
SystemMessage(prompt) == [role |-> "system", content |-> <<prompt>>]
UserMessage(text) == [role |-> "user", content |-> <<text>>]
AssistantMessage(calls) == [role |-> "assistant", content |-> <<>>, toolCalls |-> calls]
ToolMessage(res, id) == [role |-> "tool", content |-> <<res>>, toolCallId |-> id]

\* engine/types.ts ToolCall
ToolCall(id, name) == [id |-> id, name |-> name, arguments |-> "{}"]

\* LoopEvent constructors
ThinkingEvent(c) == [type |-> "thinking", content |-> c]
TextDeltaEvent(c) == [type |-> "text_delta", content |-> c]
TextEvent(c) == [type |-> "text", content |-> c]
ToolCallEvent(call) == [type |-> "tool_call", call |-> call]
ToolResultEvent(id, res) == [type |-> "tool_result", callId |-> id, result |-> res]
ErrorEvent(msg) == [type |-> "error", message |-> msg]
DoneEvent == [type |-> "done"]

\* providers/types.ts:15-18 (ProviderEvent)
ToolCallsEvent(calls) == [type |-> "tool_calls", calls |-> calls]

\* A thrown value: an Error object with a message, or a bare string
ErrorObject(msg) == [isError |-> TRUE, message |-> msg]
ThrownString(s) == [isError |-> FALSE, value |-> s]

\* err.message is read whatever was thrown
ErrMessage_Property(err) == IF err.isError THEN err.message ELSE "undefined"

\* err instanceof Error ? err.message : String(err)
ErrMessage(err) == IF err.isError THEN err.message ELSE err.value

----------------------------------------------------------------------------
(* Environment: what the caller, the provider and the tools may do *)

CallerMessageLists == { <<UserMessage("Hello")>> }
SystemPrompts == {"", "You are helpful"}
MaxIterationsValues == (0 - 1) .. MaxIter

\* the provider is free to reuse a call id, in one batch or across turns
ProviderCalls == {ToolCall("c1", "bash"), ToolCall("c2", "unknown_tool")}
ProviderBatches == SeqsUpTo(ProviderCalls, MaxCalls)
ProviderDeltas == {ThinkingEvent(<<"p">>), TextDeltaEvent(<<"a">>)}
ProviderThrows == {ErrorObject("Network failure"), ThrownString("Connection reset")}

\* tools/registry.ts: the tools registered
RegisteredTools == {"bash"}

\* outcomes of tool.execute(args) of a registered tool
ToolOutcomes(name) == { [ok |-> TRUE, value |-> "ok"],
                        [ok |-> FALSE, err |-> ErrorObject("boom")] }

\* ToolRegistry.execute(name, args)
RegistryExecute(name) ==
    IF name \notin RegisteredTools
    THEN { [ok |-> FALSE,
            err |-> ErrorObject("Tool \"" \o name \o "\" not found in registry")] }
    ELSE ToolOutcomes(name)

----------------------------------------------------------------------------
(* Decisions of runLoop *)

\* zero is let through
InvalidMaxIterations_Strict(n) == n < 0

\* loop.ts:13
InvalidMaxIterations(n) == n <= 0

\* without a system prompt ctx is the caller's array itself, not a copy
NewCtx_Alias(prompt, msgs) ==
    IF prompt # ""
    THEN [ref |-> "ctx", elems |-> <<SystemMessage(prompt)>> \o msgs]
    ELSE [ref |-> "messages", elems |-> msgs]

\* loop.ts:19-21: ctx is a fresh array in both branches
NewCtx(prompt, msgs) ==
    [ref |-> "ctx",
     elems |-> IF prompt # "" THEN <<SystemMessage(prompt)>> \o msgs ELSE msgs]

\* the catch block ends without yield done
AfterErrorYield_NoDone(site) == IF site = "provider" THEN "returned" ELSE "yield_done"

\* the catch block does not return and falls through to the checks after it
AfterErrorYield_FallThrough(site) == IF site = "provider" THEN "decide" ELSE "yield_done"

\* loop.ts:15-16, 42-43, 55-56, 75: after the error event of a site the generator
\* yields done and returns
AfterErrorYield(site) == "yield_done"

\* one iteration too many
LoopContinues_OffByOne(it, max) == it <= max

\* loop.ts:26
LoopContinues(it, max) == it < max

\* the empty batch is not checked for
IsEmptyBatch_Never(calls) == FALSE

\* loop.ts:53
IsEmptyBatch(calls) == Len(calls) = 0

\* the result carries the id of the first call of the batch
ResultCallId_First(batch, idx) == batch[1].id

\* loop.ts:69: callId of the tool_result event
ResultCallId(batch, idx) == batch[idx].id

\* thinking events are swallowed
Forwarded_TextOnly(ev) == IF ev.type = "text_delta" THEN <<ev>> ELSE <<>>

\* loop.ts:32-33: the events yielded for one provider event
Forwarded(ev) == IF ev.type \in {"thinking", "text_delta"} THEN <<ev>> ELSE <<>>

\* loop.ts:35-37: tool_calls ends the consumption of the stream (break)
AfterToolCalls == "decide"

\* thinking contents are accumulated with the text
Accumulate_All(acc, ev) == acc \o ev.content

\* loop.ts:34
Accumulate(acc, ev) == IF ev.type = "text_delta" THEN acc \o ev.content ELSE acc

\* every call of the batch not yet run is started at once
CallsDispatched_All(batch, idx) == idx .. Len(batch)

\* loop.ts:68: the calls whose registry.execute is invoked after tool_call(idx)
CallsDispatched(batch, idx) == {idx}

\* the thrown message is returned without the Error: prefix
ExecuteToolSafe_Raw(o) ==
    IF o.ok THEN o.value ELSE (IF o.err.isError THEN o.err.message ELSE o.err.value)

\* loop.ts:81-87
ExecuteToolSafe(o) ==
    IF o.ok THEN o.value
    ELSE "Error: " \o (IF o.err.isError THEN o.err.message ELSE o.err.value)

\* the message is put in front of the list
Push_Front(h, ref, m) == [h EXCEPT ![ref] = <<m>> \o @]

\* ctx.push(m)
Push(h, ref, m) == [h EXCEPT ![ref] = Append(@, m)]

Batch == toolCalls[1]

\* tool calls of the batches received so far (one tool_call event each)
CallsRequested == Cardinality({ i \in DOMAIN events : events[i].type = "tool_call" })
Call == Batch[callIdx]

----------------------------------------------------------------------------
\* no content is being fed to the think-tag machine
TagIdle ==
    /\ tagTokens = <<>>
    /\ tagPos = 0
    /\ machine = [state |-> "outside", buf |-> <<>>]
    /\ segments = <<>>

\* OllamaProvider.chat is not running
ChatIdle ==
    /\ chatFrames = <<>>
    /\ chatIdx = 0
    /\ chatPc = "idle"
    /\ chatOut = <<>>
    /\ pushed = <<>>

\* parseNDJSON is not running
NdIdle ==
    /\ ndBytes = <<>>
    /\ ndPos = 0
    /\ ndPending = <<>>
    /\ buffer = <<>>
    /\ ndFrames = <<>>
    /\ ndPc = "idle"
    /\ ndReader = "none"

SerIdle ==
    /\ serMessages = <<>>
    /\ serWire = <<>>
    /\ serPc = "idle"

SseIdle ==
    /\ genScript = [yields |-> <<>>, throws |-> <<>>]
    /\ genPos = 0
    /\ genState = "suspended"
    /\ onCancelGiven = FALSE
    /\ onCancelCalls = 0
    /\ stState = "idle"
    /\ stQueue = <<>>
    /\ delivered = <<>>
    /\ lateSteps = 0

DbIdle ==
    /\ dbConversations = {}
    /\ dbMessages = <<>>
    /\ dbNextId = 0
    /\ dbLast = [op |-> "none", id |-> 0, ok |-> TRUE]
    /\ dbReturned = <<>>

RouteIdle ==
    /\ rtPc = "idle"
    /\ rtConv = 0
    /\ rtPos = 0
    /\ assistantContent = <<>>
    /\ dbDown = FALSE

HookIdle ==
    /\ status = "ready"
    /\ chatMessages = <<>>
    /\ fetchCount = 0
    /\ invocations = <<>>
    /\ sendLog = <<>>

\* nothing around the loop and the provider is running
AppIdle ==
    /\ SerIdle
    /\ SseIdle
    /\ DbIdle
    /\ RouteIdle
    /\ HookIdle

\* loop.ts:12: runLoop is called
LoopInit ==
    /\ pc = "start"
    /\ maxIterations \in MaxIterationsValues
    /\ systemPrompt \in SystemPrompts
    /\ messages0 \in CallerMessageLists
    /\ heap = [messages |-> messages0, ctx |-> <<>>]
    /\ ctxRef = "none"
    /\ iteration = 0
    /\ toolCalls = <<>>
    /\ accumulatedText = <<>>
    /\ callIdx = 0
    /\ result = ""
    /\ events = <<>>
    /\ streamCount = 0
    /\ provided = <<>>
    /\ chatLog = <<>>
    /\ execLog = <<>>
    /\ inFlight = {}
    /\ pending = <<>>
    /\ thrown = <<>>

Init ==
    /\ LoopInit
    /\ TagIdle
    /\ ChatIdle
    /\ NdIdle
    /\ AppIdle

\* loop.ts:13-14
RejectMaxIterations ==
    /\ pc = "start"
    /\ InvalidMaxIterations(maxIterations)
    /\ events' = Append(events, ErrorEvent("Invalid maxIterations"))
    /\ pc' = AfterErrorYield("invalid")
    /\ UNCHANGED << provided, maxIterations, systemPrompt, messages0, heap, ctxRef, iteration,
                    toolCalls, accumulatedText, callIdx, result, streamCount,
                    chatLog, execLog, inFlight, pending, thrown >>
    /\ UNCHANGED << providerVars, appVars >>

\* loop.ts:19-26
BuildContext ==
    /\ pc = "start"
    /\ ~InvalidMaxIterations(maxIterations)
    /\ LET c == NewCtx(systemPrompt, heap.messages)
       IN  /\ heap' = [heap EXCEPT ![c.ref] = c.elems]
           /\ ctxRef' = c.ref
    /\ iteration' = 0
    /\ pc' = "loop"
    /\ UNCHANGED << provided, maxIterations, systemPrompt, messages0, toolCalls,
                    accumulatedText, callIdx, result, events, streamCount,
                    chatLog, execLog, inFlight, pending, thrown >>
    /\ UNCHANGED << providerVars, appVars >>

\* loop.ts:26-31: one more iteration, provider.chat(ctx, tools, model) is called
OpenTurn ==
    /\ pc = "loop"
    /\ LoopContinues(iteration, maxIterations)
    /\ toolCalls' = <<>>
    /\ accumulatedText' = <<>>
    /\ chatLog' = Append(chatLog, heap[ctxRef])
    /\ provided' = Append(provided, <<>>)
    /\ pending' = <<>>
    /\ pc' = "stream"
    /\ UNCHANGED << maxIterations, systemPrompt, messages0, heap, ctxRef, iteration,
                    streamCount, callIdx, result, events, execLog, inFlight, thrown >>
    /\ UNCHANGED << providerVars, appVars >>

\* loop.ts:26,74
MaxIterationsReached ==
    /\ pc = "loop"
    /\ ~LoopContinues(iteration, maxIterations)
    /\ events' = Append(events, ErrorEvent("Max iterations reached"))
    /\ pc' = AfterErrorYield("max")
    /\ UNCHANGED << provided, maxIterations, systemPrompt, messages0, heap, ctxRef, iteration,
                    toolCalls, accumulatedText, callIdx, result, streamCount,
                    chatLog, execLog, inFlight, pending, thrown >>
    /\ UNCHANGED << providerVars, appVars >>

\* loop.ts:31-34: the provider yields a thinking or text_delta event
ProviderDelta(ev) ==
    /\ pc = "stream"
    /\ streamCount < MaxStream
    /\ streamCount' = streamCount + 1
    /\ provided' = [provided EXCEPT ![Len(provided)] = Append(@, ev)]
    /\ events' = events \o Forwarded(ev)
    /\ accumulatedText' = Accumulate(accumulatedText, ev)
    /\ UNCHANGED << pc, maxIterations, systemPrompt, messages0, heap, ctxRef,
                    iteration, toolCalls, callIdx, result, chatLog, execLog,
                    inFlight, pending, thrown >>
    /\ UNCHANGED << providerVars, appVars >>

\* loop.ts:35-37: the provider yields tool_calls, the loop leaves the stream
ProviderToolCalls(batch) ==
    /\ pc = "stream"
    /\ CallsRequested + Len(batch) <= MaxCalls
    /\ provided' = [provided EXCEPT ![Len(provided)] = Append(@, ToolCallsEvent(batch))]
    /\ toolCalls' = <<batch>>
    /\ pc' = AfterToolCalls
    /\ UNCHANGED << maxIterations, systemPrompt, messages0, heap, ctxRef, iteration,
                    accumulatedText, callIdx, result, events, streamCount,
                    chatLog, execLog, inFlight, pending, thrown >>
    /\ UNCHANGED << providerVars, appVars >>

\* loop.ts:31,39: the provider's stream ends
ProviderEnd ==
    /\ pc = "stream"
    /\ pc' = "decide"
    /\ UNCHANGED << provided, maxIterations, systemPrompt, messages0, heap, ctxRef, iteration,
                    toolCalls, accumulatedText, callIdx, result, events, streamCount,
                    chatLog, execLog, inFlight, pending, thrown >>
    /\ UNCHANGED << providerVars, appVars >>

\* loop.ts:40-41: the provider throws, before or between its events
ProviderThrow(err) ==
    /\ pc = "stream"
    /\ thrown' = << [err |-> err, prefix |-> events,
                     chats |-> Len(chatLog), execs |-> Len(execLog)] >>
    /\ events' = Append(events, ErrorEvent(ErrMessage(err)))
    /\ pc' = AfterErrorYield("provider")
    /\ UNCHANGED << provided, maxIterations, systemPrompt, messages0, heap, ctxRef, iteration,
                    toolCalls, accumulatedText, callIdx, result, streamCount,
                    chatLog, execLog, inFlight, pending >>
    /\ UNCHANGED << providerVars, appVars >>

\* loop.ts:46-48
FinalText ==
    /\ pc = "decide"
    /\ toolCalls = <<>>
    /\ accumulatedText # <<>>
    /\ events' = Append(events, TextEvent(accumulatedText))
    /\ pc' = "yield_done"
    /\ UNCHANGED << provided, maxIterations, systemPrompt, messages0, heap, ctxRef, iteration,
                    toolCalls, accumulatedText, callIdx, result, streamCount,
                    chatLog, execLog, inFlight, pending, thrown >>
    /\ UNCHANGED << providerVars, appVars >>

\* loop.ts:46,48: nothing accumulated, no text event
FinalNoText ==
    /\ pc = "decide"
    /\ toolCalls = <<>>
    /\ accumulatedText = <<>>
    /\ pc' = "yield_done"
    /\ UNCHANGED << provided, maxIterations, systemPrompt, messages0, heap, ctxRef, iteration,
                    toolCalls, accumulatedText, callIdx, result, events, streamCount,
                    chatLog, execLog, inFlight, pending, thrown >>
    /\ UNCHANGED << providerVars, appVars >>

\* loop.ts:53-54
EmptyToolCalls ==
    /\ pc = "decide"
    /\ toolCalls # <<>>
    /\ IsEmptyBatch(Batch)
    /\ events' = Append(events, ErrorEvent("Provider returned empty tool_calls"))
    /\ pc' = AfterErrorYield("empty")
    /\ UNCHANGED << provided, maxIterations, systemPrompt, messages0, heap, ctxRef, iteration,
                    toolCalls, accumulatedText, callIdx, result, streamCount,
                    chatLog, execLog, inFlight, pending, thrown >>
    /\ UNCHANGED << providerVars, appVars >>

\* loop.ts:59-66, and 26 when the for-of over the batch has nothing to visit
PushAssistant ==
    /\ pc = "decide"
    /\ toolCalls # <<>>
    /\ ~IsEmptyBatch(Batch)
    /\ heap' = Push(heap, ctxRef, AssistantMessage(Batch))
    /\ IF Len(Batch) > 0
       THEN /\ callIdx' = 1
            /\ pc' = "call"
            /\ UNCHANGED iteration
       ELSE /\ iteration' = iteration + 1
            /\ pc' = "loop"
            /\ UNCHANGED callIdx
    /\ UNCHANGED << provided, maxIterations, systemPrompt, messages0, ctxRef,
                    toolCalls, accumulatedText, result, events, streamCount,
                    chatLog, execLog, inFlight, pending, thrown >>
    /\ UNCHANGED << providerVars, appVars >>

\* loop.ts:67
YieldToolCall ==
    /\ pc = "call"
    /\ events' = Append(events, ToolCallEvent(Call))
    /\ pc' = "exec"
    /\ UNCHANGED << provided, maxIterations, systemPrompt, messages0, heap, ctxRef, iteration,
                    toolCalls, accumulatedText, callIdx, result, streamCount,
                    chatLog, execLog, inFlight, pending, thrown >>
    /\ UNCHANGED << providerVars, appVars >>

\* loop.ts:68,83: registry.execute(call.name, call.arguments) is invoked
StartExecute ==
    /\ pc = "exec"
    /\ LET started == CallsDispatched(Batch, callIdx)
       IN  /\ inFlight' = inFlight \cup started
           /\ execLog' = execLog \o
                 [k \in 1 .. Cardinality(started) |->
                     [name |-> Batch[callIdx + k - 1].name,
                      arguments |-> Batch[callIdx + k - 1].arguments,
                      at |-> Len(events)]]
    /\ pending' = <<>>
    /\ pc' = "await"
    /\ UNCHANGED << provided, maxIterations, systemPrompt, messages0, heap, ctxRef, iteration,
                    toolCalls, accumulatedText, callIdx, result, events, streamCount,
                    chatLog, thrown >>
    /\ UNCHANGED << providerVars, appVars >>

\* loop.ts:68,83-85, registry.ts:26-30: the execution returns or throws
SettleExecute(o) ==
    /\ pc = "await"
    /\ o \in RegistryExecute(Call.name)
    /\ pending' = <<o>>
    /\ result' = ExecuteToolSafe(o)
    /\ inFlight' = inFlight \ {callIdx}
    /\ pc' = "result"
    /\ UNCHANGED << provided, maxIterations, systemPrompt, messages0, heap, ctxRef, iteration,
                    toolCalls, accumulatedText, callIdx, events, streamCount,
                    chatLog, execLog, thrown >>
    /\ UNCHANGED << providerVars, appVars >>

\* loop.ts:69
YieldToolResult ==
    /\ pc = "result"
    /\ events' = Append(events, ToolResultEvent(ResultCallId(Batch, callIdx), result))
    /\ pc' = "push"
    /\ UNCHANGED << provided, maxIterations, systemPrompt, messages0, heap, ctxRef, iteration,
                    toolCalls, accumulatedText, callIdx, result, streamCount,
                    chatLog, execLog, inFlight, pending, thrown >>
    /\ UNCHANGED << providerVars, appVars >>

\* loop.ts:70, then 66 (next call) or 26 (iteration++)
PushToolMessage ==
    /\ pc = "push"
    /\ heap' = Push(heap, ctxRef, ToolMessage(result, Call.id))
    /\ IF callIdx < Len(Batch)
       THEN /\ callIdx' = callIdx + 1
            /\ pc' = "call"
            /\ UNCHANGED iteration
       ELSE /\ iteration' = iteration + 1
            /\ pc' = "loop"
            /\ UNCHANGED callIdx
    /\ UNCHANGED << provided, maxIterations, systemPrompt, messages0, ctxRef, toolCalls,
                    accumulatedText, result, events, streamCount, chatLog, execLog,
                    inFlight, pending, thrown >>
    /\ UNCHANGED << providerVars, appVars >>

\* loop.ts:15,42,49,55,75: yield done, then the generator returns
YieldDone ==
    /\ pc = "yield_done"
    /\ events' = Append(events, DoneEvent)
    /\ pc' = "returned"
    /\ UNCHANGED << provided, maxIterations, systemPrompt, messages0, heap, ctxRef, iteration,
                    toolCalls, accumulatedText, callIdx, result, streamCount,
                    chatLog, execLog, inFlight, pending, thrown >>
    /\ UNCHANGED << providerVars, appVars >>

Next ==
    \/ RejectMaxIterations
    \/ BuildContext
    \/ OpenTurn
    \/ MaxIterationsReached
    \/ \E ev \in ProviderDeltas : ProviderDelta(ev)
    \/ \E batch \in ProviderBatches : ProviderToolCalls(batch)
    \/ ProviderEnd
    \/ \E err \in ProviderThrows : ProviderThrow(err)
    \/ FinalText
    \/ FinalNoText
    \/ EmptyToolCalls
    \/ PushAssistant
    \/ YieldToolCall
    \/ StartExecute
    \/ \E o \in UNION { RegistryExecute(c.name) : c \in ProviderCalls } : SettleExecute(o)
    \/ YieldToolResult
    \/ PushToolMessage
    \/ YieldDone

Spec == Init /\ [][Next]_vars

\* the consumer pulls to completion, provider streams are finite, tools settle
FairSpec == Spec /\ WF_vars(Next)

----------------------------------------------------------------------------
(* Vocabulary of the properties *)

Returned == pc = "returned"
Last(s) == s[Len(s)]
Ctx == heap[ctxRef]
Positions(type) == { i \in DOMAIN events : events[i].type = type }
Count(type) == Cardinality(Positions(type))
ToolCallsBefore(i, id) ==
    { j \in 1 .. (i - 1) : events[j].type = "tool_call" /\ events[j].call.id = id }
ToolResultsUpTo(i, id) ==
    { j \in 1 .. i : events[j].type = "tool_result" /\ events[j].callId = id }

----------------------------------------------------------------------------
(* C1: a run of runLoop that is consumed to completion contains exactly one
   done event and done is its last event: no done is emitted before the
   generator returns, the generator never stops short of returning, and once
   it has returned the only done event is the last event. *)
C1_DoneIsLast ==
    /\ Returned \/ ENABLED Next
    /\ ~Returned => Count("done") = 0
    /\ Returned => /\ events # <<>>
                   /\ Positions("done") = { Len(events) }

\* a completed run with a tool cycle and a final text
C1_Witness ==
    /\ Returned
    /\ Count("tool_result") >= 1
    /\ Count("text") = 1

\* a completed run that ended in a provider error
C1_WitnessError ==
    /\ Returned
    /\ thrown # <<>>

(* C2: at most one error event occurs, and the event after an error is done:
   an error is the last event (the generator is about to yield done) or the
   last but one, followed by done. *)
C2_ErrorThenDone ==
    /\ Count("error") <= 1
    /\ \A i \in Positions("error") :
          \/ i = Len(events) /\ pc = "yield_done"
          \/ i + 1 = Len(events) /\ events[i + 1].type = "done" /\ Returned

\* a provider error in the middle of a stream that had already produced text
C2_Witness ==
    /\ Returned
    /\ thrown # <<>>
    /\ accumulatedText # <<>>
    /\ Count("error") = 1

(* C3, as claimed: every tool_result{callId} is preceded by exactly one
   tool_call event whose call.id equals callId, whatever ids the provider
   uses. *)
C3_ExactlyOneToolCall ==
    \A i \in Positions("tool_result") :
        Cardinality(ToolCallsBefore(i, events[i].callId)) = 1

(* C3, amended: every tool_result{callId} is immediately preceded by the
   tool_call event of the same id, and the tool_call events with that id
   before it are as many as the tool_result events with that id up to and
   including it; that number is one when the tool_call events before it carry
   pairwise distinct ids. *)
C3_PairedToolCall ==
    \A i \in Positions("tool_result") :
        LET id == events[i].callId
            callsBefore == { j \in 1 .. (i - 1) : events[j].type = "tool_call" }
        IN  /\ i > 1
            /\ events[i - 1].type = "tool_call"
            /\ events[i - 1].call.id = id
            /\ Cardinality(ToolCallsBefore(i, id)) = Cardinality(ToolResultsUpTo(i, id))
            /\ (\A j, k \in callsBefore : j # k => events[j].call.id # events[k].call.id)
                  => Cardinality(ToolCallsBefore(i, id)) = 1

\* two provider turns that both use call id c1, both results emitted
C3_Witness ==
    /\ Len(chatLog) = 2
    /\ Cardinality(ToolResultsUpTo(Len(events), "c1")) = 2

\* a two-call batch with distinct ids, both results emitted
C3_WitnessDistinct ==
    /\ Cardinality(ToolResultsUpTo(Len(events), "c1")) = 1
    /\ Cardinality(ToolResultsUpTo(Len(events), "c2")) = 1
    /\ Len(chatLog) = 1

(* C4: the caller's messages array is never mutated: at every point of the
   run, also after assistant and tool messages were pushed to the working
   context, it has the elements it had when runLoop was called. *)
C4_CallerMessagesUnchanged == heap.messages = messages0

\* without a system prompt, a finished run that pushed an assistant and a tool message
C4_Witness ==
    /\ Returned
    /\ systemPrompt = ""
    /\ ctxRef # "none"
    /\ Len(Ctx) >= Len(messages0) + 2

(* C5: runLoop terminates and opens at most maxIterations provider turns; when
   each of the maxIterations turns ended in a non-empty batch (one assistant
   message per turn in the context), every requested tool was executed, the
   last batch included, and the run ends tool_result, error{"Max iterations
   reached"}, done; for maxIterations = 1 and a provider that returns just a
   one-call batch the run is tool_call, tool_result, error, done. *)
AssistantCount == Cardinality({ i \in DOMAIN Ctx : Ctx[i].role = "assistant" })

C5_Bounded ==
    /\ Len(chatLog) <= (IF maxIterations > 0 THEN maxIterations ELSE 0)
    /\ (Returned /\ maxIterations > 0 /\ AssistantCount = maxIterations) =>
          /\ Len(events) >= 4
          /\ Last(events) = DoneEvent
          /\ events[Len(events) - 1] = ErrorEvent("Max iterations reached")
          /\ events[Len(events) - 2].type = "tool_result"
          /\ Len(execLog) = CallsRequested
          /\ Count("tool_result") = CallsRequested
    /\ (Returned /\ maxIterations = 1 /\ AssistantCount = 1 /\ CallsRequested = 1
           /\ Count("thinking") + Count("text_delta") = 0) =>
          [i \in DOMAIN events |-> events[i].type]
             = << "tool_call", "tool_result", "error", "done" >>

C5_Terminates == [](C5_Bounded) /\ <>Returned

\* two iterations allowed, both turns ended in a batch, the run is over
C5_Witness ==
    /\ Returned
    /\ maxIterations = 2
    /\ AssistantCount = 2
    /\ Len(chatLog) = 2

(* C6: with maxIterations zero or negative the run is exactly
   error{"Invalid maxIterations"}, done and neither provider.chat nor
   registry.execute is ever called. *)
C6_InvalidMaxIterations ==
    maxIterations <= 0 =>
        LET full == << ErrorEvent("Invalid maxIterations"), DoneEvent >>
        IN  /\ chatLog = <<>>
            /\ execLog = <<>>
            /\ events \in { SubSeq(full, 1, n) : n \in 0 .. 2 }
            /\ Returned => events = full

\* the boundary value, run finished
C6_Witness ==
    /\ Returned
    /\ maxIterations = 0

(* C7: once the provider has thrown, the events emitted before the throw stay
   as they were, followed by error{message of the thrown value} and then done,
   and no provider call and no tool execution is made after the throw. *)
C7_ProviderThrow ==
    thrown # <<>> =>
        LET t == thrown[1]
            msg == IF t.err.isError THEN t.err.message ELSE t.err.value
            full == t.prefix \o << ErrorEvent(msg), DoneEvent >>
        IN  /\ pc \in { "yield_done", "returned" }
            /\ events = IF Returned THEN full ELSE SubSeq(full, 1, Len(full) - 1)
            /\ Len(chatLog) = t.chats
            /\ Len(execLog) = t.execs
            /\ inFlight = {}

\* a non-Error value thrown in the middle of the second turn's stream
C7_Witness ==
    /\ Returned
    /\ thrown # <<>>
    /\ ~thrown[1].err.isError
    /\ Len(chatLog) = 2
    /\ Last(thrown[1].prefix).type = "text_delta"

\* an Error thrown before the first event of the first turn
C7_WitnessFirst ==
    /\ Returned
    /\ thrown # <<>>
    /\ thrown[1].err.isError
    /\ thrown[1].prefix = <<>>

(* C8: a tool failure does not end the loop.  When registry.execute throws,
   the result is "Error: " followed by the thrown message, that string is the
   tool_result and the tool message pushed to the context, no error event
   carries the failure, and the batch is completed: between turns every
   assistant message of the context is followed by one tool message per call
   of its batch, and the next turn can be opened. *)
FailureMessages ==
    { o.err.message : o \in { x \in UNION { RegistryExecute(c.name) : c \in ProviderCalls } : ~x.ok } }

Failed == pending # <<>> /\ ~pending[1].ok

RECURSIVE Blocks(_)
Blocks(s) ==
    IF s = <<>> THEN TRUE
    ELSE /\ s[1].role = "assistant"
         /\ LET b == s[1].toolCalls
            IN  /\ Len(s) >= 1 + Len(b)
                /\ \A k \in 1 .. Len(b) :
                      /\ s[1 + k].role = "tool"
                      /\ s[1 + k].toolCallId = b[k].id
                /\ Blocks(SubSeq(s, 2 + Len(b), Len(s)))

C8_ToolFailureFedBack ==
    /\ (Failed /\ pc \in { "result", "push" }) =>
          result = "Error: " \o pending[1].err.message
    /\ (Failed /\ pc = "push") =>
          Last(events) = ToolResultEvent(Call.id, "Error: " \o pending[1].err.message)
    /\ (Failed /\ pc \in { "call", "loop" }) =>
          /\ Last(events).type = "tool_result"
          /\ Last(Ctx) = ToolMessage("Error: " \o pending[1].err.message, Last(events).callId)
    /\ (Failed /\ pc = "loop" /\ iteration < maxIterations) => ENABLED OpenTurn
    /\ \A i \in Positions("error") :
          /\ events[i].message \notin FailureMessages
          /\ events[i].message \notin { "Error: " \o m : m \in FailureMessages }
    /\ (ctxRef # "none" /\ pc \in { "loop", "stream", "yield_done", "returned" }) =>
          Blocks(SubSeq(Ctx, Len(Ctx) - (AssistantCount + CallsRequested) + 1, Len(Ctx)))

\* an unknown tool failed in the first turn and a second turn was opened
C8_Witness ==
    /\ Len(chatLog) = 2
    /\ \E i \in Positions("tool_result") :
          events[i].result = "Error: Tool \"unknown_tool\" not found in registry"

\* the first call of a batch failed and the second call was still run
C8_WitnessBatch ==
    /\ Count("tool_result") = 2
    /\ Len(chatLog) = 1
    /\ events[Len(events) - 2] = ToolCallEvent(ToolCall("c1", "bash"))
    /\ \E i \in 1 .. (Len(events) - 3) :
          events[i].type = "tool_result" /\ events[i].result = "Error: boom"

(* C9: a turn that ends in an empty tool_calls batch yields
   error{"Provider returned empty tool_calls"} and then done; the context is
   still the list that was passed to provider.chat for that turn and no tool
   was executed in that turn. *)
C9_EmptyToolCalls ==
    (toolCalls = << <<>> >>) =>
        /\ pc \in { "decide", "yield_done", "returned" }
        /\ Ctx = Last(chatLog)
        /\ Len(execLog) = Cardinality({ i \in DOMAIN Ctx : Ctx[i].role = "tool" })
        /\ inFlight = {}
        /\ pc = "yield_done" =>
              Last(events) = ErrorEvent("Provider returned empty tool_calls")
        /\ Returned =>
              /\ Len(events) >= 2
              /\ events[Len(events) - 1] = ErrorEvent("Provider returned empty tool_calls")
              /\ Last(events) = DoneEvent

\* the second turn ended in an empty batch, the run is over
C9_Witness ==
    /\ Returned
    /\ toolCalls = << <<>> >>
    /\ Len(chatLog) = 2

(* C10: the events of a batch are tool_call(c1), tool_result(c1.id), ...,
   tool_call(cn), tool_result(cn.id) in batch order with nothing in between;
   a registry.execute starts right after the tool_call event of its call, when
   every earlier call has had its tool_result emitted, and at most one
   execution is in flight. *)
BatchEventsSoFar ==
    CASE pc = "call" -> 2 * (callIdx - 1)
      [] pc \in { "exec", "await", "result" } -> 2 * (callIdx - 1) + 1
      [] pc = "push" -> 2 * callIdx
      [] OTHER -> 2 * Len(Batch)

C10_SequentialDispatch ==
    /\ Cardinality(inFlight) <= 1
    /\ inFlight # {} => (pc = "await" /\ inFlight = { callIdx })
    /\ (toolCalls # <<>> /\ pc \in { "call", "exec", "await", "result", "push", "loop" }) =>
          LET n == BatchEventsSoFar
              base == Len(events) - n
          IN  /\ base >= 0
              /\ \A k \in 1 .. n :
                    IF k % 2 = 1
                    THEN events[base + k] = ToolCallEvent(Batch[(k + 1) \div 2])
                    ELSE /\ events[base + k].type = "tool_result"
                         /\ events[base + k].callId = Batch[k \div 2].id
    /\ \A k \in DOMAIN execLog :
          LET e == execLog[k]
          IN  /\ e.at >= 1
              /\ events[e.at].type = "tool_call"
              /\ events[e.at].call.name = e.name
              /\ Cardinality({ j \in 1 .. e.at : events[j].type = "tool_call" }) = k
              /\ Cardinality({ j \in 1 .. e.at : events[j].type = "tool_result" }) = k - 1

\* a batch of two calls has been processed to its end
C10_Witness ==
    /\ pc = "loop"
    /\ toolCalls # <<>>
    /\ Len(Batch) = 2
    /\ Len(execLog) = 2

----------------------------------------------------------------------------
(* C11: the final text of a turn without tool calls *)

RECURSIVE TextOf(_)
\* the text_delta contents of a sequence of provider events, concatenated
TextOf(s) ==
    IF s = <<>> THEN <<>>
    ELSE (IF Head(s).type = "text_delta" THEN Head(s).content ELSE <<>>) \o TextOf(Tail(s))

\* the stream of the latest provider.chat call ended, without a throw, and
\* had produced no tool_calls event
EndedWithoutToolCalls ==
    /\ pc \in {"yield_done", "returned"}
    /\ thrown = <<>>
    /\ provided # <<>>
    /\ \A i \in DOMAIN Last(provided) : Last(provided)[i].type # "tool_calls"

\* C11: when the stream of a turn ends without a tool_calls event, runLoop
\* yields text{c} if and only if c is non-empty, where c is the concatenation
\* of the text_delta contents of that turn alone, and then yields done; a text
\* event is yielded in no other case.
C11_FinalText ==
    /\ Count("text") > 0 => EndedWithoutToolCalls
    /\ (Returned /\ EndedWithoutToolCalls) =>
         LET c == TextOf(Last(provided))
             n == Len(events)
         IN /\ Last(events) = DoneEvent
            /\ IF c # <<>>
               THEN /\ Positions("text") = {n - 1}
                    /\ events[n - 1] = TextEvent(c)
               ELSE Positions("text") = {}

\* an earlier tool turn and the final turn both carried text
C11_Witness ==
    /\ Returned
    /\ EndedWithoutToolCalls
    /\ Len(provided) = 2
    /\ TextOf(provided[1]) # <<>>
    /\ TextOf(provided[2]) # <<>>

\* the final turn carried thinking only: no text event
C11_WitnessNoText ==
    /\ Returned
    /\ EndedWithoutToolCalls
    /\ Last(provided) # <<>>
    /\ TextOf(Last(provided)) = <<>>

----------------------------------------------------------------------------
(* C12: forwarding of the provider's stream *)

RECURSIVE Flatten(_)
\* concatenation of a sequence of sequences
Flatten(ss) == IF ss = <<>> THEN <<>> ELSE Head(ss) \o Flatten(Tail(ss))

IsDelta(ev) == ev.type \in {"thinking", "text_delta"}

\* the thinking and text_delta events of a sequence of events, in order
DeltasOf(s) == SelectSeq(s, IsDelta)

\* the last n elements of s
Suffix(s, n) == SubSeq(s, Len(s) - n + 1, Len(s))

\* C12: within each turn runLoop yields every thinking and text_delta event
\* of the provider unchanged and in the provider's order, up to but not
\* including a tool_calls event; nothing is consumed from a stream after its
\* tool_calls event, so no later provider event is forwarded.
C12_Forwarding ==
    /\ DeltasOf(events) = DeltasOf(Flatten(provided))
    /\ \A k \in DOMAIN provided : \A i \in DOMAIN provided[k] :
         provided[k][i].type = "tool_calls" => i = Len(provided[k])
    /\ pc \in {"stream", "decide"} =>
         LET d == DeltasOf(Last(provided))
         IN Len(events) >= Len(d) /\ Suffix(events, Len(d)) = d

\* a stream produced thinking, text_delta and then tool_calls, and the loop
\* has gone on to run the calls
C12_Witness ==
    /\ pc = "call"
    /\ Len(Last(provided)) = 3
    /\ Last(provided)[1].type = "thinking"
    /\ Last(provided)[2].type = "text_delta"
    /\ Last(provided)[3].type = "tool_calls"

----------------------------------------------------------------------------
(* C13: the message list of every provider.chat call *)

IsToolResult(ev) == ev.type = "tool_result"

\* the batch a turn's stream ended with
BatchOf(k) == Last(provided[k]).calls

RECURSIVE TurnBlocks(_, _, _)
\* what turns j .. k-1 appended: per turn the assistant message of its batch,
\* then one tool message per call; res holds the tool_result events of
\* those turns in order
TurnBlocks(j, k, res) ==
    IF j >= k THEN <<>>
    ELSE LET b == BatchOf(j)
         IN <<AssistantMessage(b)>>
            \o [i \in 1 .. Len(b) |-> ToolMessage(res[i].result, b[i].id)]
            \o TurnBlocks(j + 1, k, SubSeq(res, Len(b) + 1, Len(res)))

\* the list the claim describes for turn k
ExpectedCtx(k) ==
    (IF systemPrompt # "" THEN <<SystemMessage(systemPrompt)>> ELSE <<>>)
    \o messages0
    \o TurnBlocks(1, k, SelectSeq(events, IsToolResult))

\* C13: the message list passed to provider.chat on turn k is the system
\* message if a system prompt is configured, then the caller's messages in
\* order, then for every earlier turn j in order the assistant message with
\* content null and batch j as toolCalls followed by one tool message per call
\* of batch j in batch order; so every tool message has an earlier assistant
\* message whose toolCalls contain its toolCallId.
C13_ChatMessages ==
    \A k \in DOMAIN chatLog :
        /\ chatLog[k] = ExpectedCtx(k)
        /\ \A i \in DOMAIN chatLog[k] :
             chatLog[k][i].role = "tool" =>
               \E j \in 1 .. (i - 1) :
                 /\ chatLog[k][j].role = "assistant"
                 /\ \E c \in DOMAIN chatLog[k][j].toolCalls :
                      chatLog[k][j].toolCalls[c].id = chatLog[k][i].toolCallId

\* the second provider.chat call follows a batch of two calls and a system
\* prompt is configured
C13_Witness ==
    /\ Len(chatLog) = 2
    /\ systemPrompt # ""
    /\ Len(BatchOf(1)) = 2
    /\ Len(chatLog[2]) = 5

----------------------------------------------------------------------------
(* The think-tag machine: processThinkChunk (src/lib/providers/types.ts)   *)
(*                                                                         *)
(* One content is cut into chunks at arbitrary places; every chunk is one  *)
(* call of processThinkChunk on the machine state the calls share.         *)

\* runLoop is not running
LoopIdle ==
    /\ pc = "idle"
    /\ maxIterations = 0
    /\ systemPrompt = ""
    /\ messages0 = <<>>
    /\ heap = [messages |-> <<>>, ctx |-> <<>>]
    /\ ctxRef = "none"
    /\ iteration = 0
    /\ toolCalls = <<>>
    /\ accumulatedText = <<>>
    /\ callIdx = 0
    /\ result = ""
    /\ events = <<>>
    /\ streamCount = 0
    /\ provided = <<>>
    /\ chatLog = <<>>
    /\ execLog = <<>>
    /\ inFlight = {}
    /\ pending = <<>>
    /\ thrown = <<>>

MaxTokens == 4    \* most pieces a content is put together from

\* types.ts:89-90
OPEN == << "<", "t", "h", "i", "n", "k", ">" >>
CLOSE == << "<", "/", "t", "h", "i", "n", "k", ">" >>

\* the pieces contents are put together from: the two sentinels, a lone "<",
\* a plain character and a partial open sentinel
TagTokens == { OPEN, CLOSE, << "<" >>, << "x" >>, << "<", "t", "h", "i" >> }
TagContents == SeqsUpTo(TagTokens, MaxTokens)

\* s.startsWith(p)
StartsWith(s, p) == Len(p) <= Len(s) /\ SubSeq(s, 1, Len(p)) = p

\* types.ts:213
InitialMachine == [state |-> "outside", buf |-> <<>>]

\* the partial sentinel is forgotten between two calls
ChunkStart_FreshBuf(m) ==
    [state |-> m.state, buf |-> <<>>, outside |-> <<>>, thinking |-> <<>>, out |-> <<>>]

\* types.ts:85-93: a call starts from the shared machine, with empty local
\* buffers and nothing yielded
ChunkStart(m) ==
    [state |-> m.state, buf |-> m.buf, outside |-> <<>>, thinking |-> <<>>, out |-> <<>>]

\* types.ts:95-107: flush() and the yield of its event
Flush(r) ==
    IF r.outside # <<>>
    THEN [r EXCEPT !.out = Append(@, TextDeltaEvent(r.outside)), !.outside = <<>>]
    ELSE IF r.thinking # <<>>
         THEN [r EXCEPT !.out = Append(@, ThinkingEvent(r.thinking)), !.thinking = <<>>]
         ELSE r

\* the characters of a dead start are dropped
DeadOpen_Drop(r, b) == [r EXCEPT !.state = "outside", !.buf = <<>>]

\* types.ts:131-134: a dead start of the open sentinel
DeadOpen(r, b) == [r EXCEPT !.outside = @ \o b, !.state = "outside", !.buf = <<>>]

\* the accumulator is not cleared after a dead start
DeadClose_KeepBuf(r, b) == [r EXCEPT !.thinking = @ \o b, !.state = "inside", !.buf = b]

\* types.ts:160-163: a dead start of the close sentinel
DeadClose(r, b) == [r EXCEPT !.thinking = @ \o b, !.state = "inside", !.buf = <<>>]

\* types.ts:109-166: one character
StepChar(r, ch) ==
    CASE r.state = "outside" ->
           IF ch = "<"
           THEN [Flush(r) EXCEPT !.state = "maybe_open", !.buf = << "<" >>]
           ELSE [r EXCEPT !.outside = Append(@, ch)]
      [] r.state = "maybe_open" ->
           LET b == Append(r.buf, ch)
           IN IF StartsWith(OPEN, b)
              THEN (IF b = OPEN THEN [r EXCEPT !.state = "inside", !.buf = <<>>]
                                ELSE [r EXCEPT !.buf = b])
              ELSE DeadOpen(r, b)
      [] r.state = "inside" ->
           IF ch = "<"
           THEN [Flush(r) EXCEPT !.state = "maybe_close", !.buf = << "<" >>]
           ELSE [r EXCEPT !.thinking = Append(@, ch)]
      [] r.state = "maybe_close" ->
           LET b == Append(r.buf, ch)
           IN IF StartsWith(CLOSE, b)
              THEN (IF b = CLOSE
                    THEN [Flush(r) EXCEPT !.state = "outside", !.buf = <<>>]
                    ELSE [r EXCEPT !.buf = b])
              ELSE DeadClose(r, b)

RECURSIVE StepChars(_, _)
\* types.ts:109: for (const ch of text)
StepChars(r, text) ==
    IF text = <<>> THEN r ELSE StepChars(StepChar(r, Head(text)), Tail(text))

\* types.ts:85-171: the machine after the call and the events it yields
processThinkChunk(text, m) ==
    LET r == Flush(StepChars(ChunkStart(m), text))
    IN [machine |-> [state |-> r.state, buf |-> r.buf], events |-> r.out]

RECURSIVE Coalesce(_, _)
\* segs followed by evs, adjacent events of one type merged into one
Coalesce(segs, evs) ==
    IF evs = <<>> THEN segs
    ELSE LET ev == Head(evs)
             n == Len(segs)
         IN IF n > 0 /\ segs[n].type = ev.type
            THEN Coalesce([segs EXCEPT ![n].content = @ \o ev.content], Tail(evs))
            ELSE Coalesce(Append(segs, ev), Tail(evs))

\* the content fed to the machine
TagContent == Flatten(tagTokens)

TagInit ==
    /\ LoopIdle
    /\ AppIdle
    /\ ChatIdle
    /\ NdIdle
    /\ tagTokens \in TagContents
    /\ tagPos = 0
    /\ machine = InitialMachine
    /\ segments = <<>>

\* types.ts:229-231: the next n characters arrive as one chunk
FeedChunk(n) ==
    /\ tagPos + n <= Len(TagContent)
    /\ LET r == processThinkChunk(SubSeq(TagContent, tagPos + 1, tagPos + n), machine)
       IN /\ machine' = r.machine
          /\ segments' = Coalesce(segments, r.events)
    /\ tagPos' = tagPos + n
    /\ UNCHANGED << tagTokens, loopVars, chatVars, ndVars, appVars >>

TagNext == \E n \in 1 .. (MaxTokens * Len(CLOSE)) : FeedChunk(n)

TagSpec == TagInit /\ [][TagNext]_vars

----------------------------------------------------------------------------
(* C14: chunking does not change what the think-tag machine yields *)

\* the consumed part of the content handed over as one single chunk
WholeRun == processThinkChunk(SubSeq(TagContent, 1, tagPos), InitialMachine)

RECURSIVE ContentOf(_, _)
\* the contents of the events of one type, concatenated
ContentOf(evs, type) ==
    IF evs = <<>> THEN <<>>
    ELSE (IF Head(evs).type = type THEN Head(evs).content ELSE <<>>)
         \o ContentOf(Tail(evs), type)

\* C14: however a content is cut into chunks fed through processThinkChunk
\* with one shared machine state, the concatenation of the thinking contents,
\* the concatenation of the text_delta contents and the order in which
\* thinking and visible segments alternate are those of the uncut content.
C14_ChunkInvariance ==
    tagPos > 0 =>
        /\ machine = WholeRun.machine
        /\ ContentOf(segments, "thinking") = ContentOf(WholeRun.events, "thinking")
        /\ ContentOf(segments, "text_delta") = ContentOf(WholeRun.events, "text_delta")
        /\ segments = Coalesce(<<>>, WholeRun.events)

\* a chunk ended inside the close sentinel, after visible and thinking
\* content had been yielded
C14_Witness ==
    /\ machine.state = "maybe_close"
    /\ Len(machine.buf) = 3
    /\ tagTokens = << <<"x">>, OPEN, <<"x">>, CLOSE >>
    /\ segments = << TextDeltaEvent(<<"x">>), ThinkingEvent(<<"x">>) >>

\* the whole content was consumed: a thinking segment, then a visible one
C14_WitnessEnd ==
    /\ tagPos = Len(TagContent)
    /\ segments = << ThinkingEvent(<<"x">>), TextDeltaEvent(<<"x">>) >>

----------------------------------------------------------------------------
(* C16: "<" followed by "<" outside a thinking segment *)

\* the machine after the first n characters of the content
MachineAfter(n) == processThinkChunk(SubSeq(TagContent, 1, n), InitialMachine).machine

\* the last two characters consumed are "<" "<" and the first of them was
\* read in state outside
DoubleOpenRead ==
    /\ tagPos >= 2
    /\ TagContent[tagPos - 1] = "<"
    /\ TagContent[tagPos] = "<"
    /\ MachineAfter(tagPos - 2).state = "outside"

\* C16: in state outside a "<" followed by another "<" has its first "<"
\* emitted as visible text while the second starts a new tag match (state
\* maybe_open, accumulator "<"); so the content <<think>x</think> yields the
\* visible text "<" and the thinking text "x".
C16_DoubleOpen ==
    /\ DoubleOpenRead => machine = [state |-> "maybe_open", buf |-> << "<" >>]
    /\ (tagTokens = << << "<" >>, OPEN, << "x" >>, CLOSE >> /\ tagPos = Len(TagContent)) =>
         segments = << TextDeltaEvent(<< "<" >>), ThinkingEvent(<< "x" >>) >>

\* what processThinkChunk yields for <<think>x</think>: visible text only
C16_Witness ==
    /\ tagTokens = << << "<" >>, OPEN, << "x" >>, CLOSE >>
    /\ tagPos = Len(TagContent)
    /\ segments = << TextDeltaEvent(<< "<" >> \o OPEN \o << "x" >> \o CLOSE) >>

----------------------------------------------------------------------------
(* C17: no nesting of thinking segments *)

\* characters of the content before its k-th piece
TokenStart(k) == Len(Flatten(SubSeq(tagTokens, 1, k - 1)))

\* thinking text yielded for the first n characters of the content
ThinkingAfter(n) ==
    ContentOf(processThinkChunk(SubSeq(TagContent, 1, n), InitialMachine).events, "thinking")

\* the k-th piece is an open sentinel read from state inside
NestedOpen(k) ==
    /\ k \in DOMAIN tagTokens
    /\ tagTokens[k] = OPEN
    /\ MachineAfter(TokenStart(k)) = [state |-> "inside", buf |-> <<>>]

\* the c-th piece is the first close sentinel after the k-th piece
FirstCloseAfter(k, c) ==
    /\ c \in DOMAIN tagTokens
    /\ c > k
    /\ tagTokens[c] = CLOSE
    /\ \A j \in (k + 1) .. (c - 1) : tagTokens[j] # CLOSE

\* C17: thinking segments do not nest: a <think> token read while inside is
\* emitted as literal thinking characters, and the first </think> that
\* follows it ends the thinking segment.
C17_NoNesting ==
    \A k \in DOMAIN tagTokens :
        NestedOpen(k) =>
            /\ tagPos = TokenStart(k + 1) =>
                 /\ machine = [state |-> "inside", buf |-> <<>>]
                 /\ ContentOf(segments, "thinking") = ThinkingAfter(TokenStart(k)) \o OPEN
            /\ \A c \in DOMAIN tagTokens :
                 (FirstCloseAfter(k, c) /\ tagPos = TokenStart(c + 1)) =>
                     /\ machine = [state |-> "outside", buf |-> <<>>]
                     /\ ContentOf(segments, "thinking")
                          = ThinkingAfter(TokenStart(k)) \o Flatten(SubSeq(tagTokens, k, c - 1))

\* <think><think><</think> was consumed and the machine is still inside
C17_Witness ==
    /\ tagTokens = << OPEN, OPEN, << "<" >>, CLOSE >>
    /\ tagPos = Len(TagContent)
    /\ machine.state = "inside"

----------------------------------------------------------------------------
(* OllamaProvider.chat from the first frame on (types.ts:213-233)          *)
(*                                                                         *)
(* The frames are what parseNDJSON yields for the response body; one       *)
(* iteration of the for-await loop is one step.                            *)

MaxFrames == 2    \* most frames of one response

\* types.ts:38-40: arguments is a string or an object (here one key, one value)
StringArguments(text) == [isString |-> TRUE, text |-> text, key |-> "", val |-> ""]
ObjectArguments(key, val) == [isString |-> FALSE, text |-> "", key |-> key, val |-> val]
OllamaToolCall(name, args) == [function |-> [name |-> name, arguments |-> args]]

\* types.ts:42-45: tool_calls absent, null or [] is <<>>
OllamaFrame(content, calls, done) ==
    [message |-> [content |-> content, tool_calls |-> calls], done |-> done]

\* JSON.stringify of an object of at most one string-valued key; the key ""
\* stands for the object without keys
JSONStringify(a) ==
    IF a.key = "" THEN "{}" ELSE "{\"" \o a.key \o "\":\"" \o a.val \o "\"}"

RawBash == OllamaToolCall("bash", ObjectArguments("command", "ls"))
RawRead == OllamaToolCall("read_file", StringArguments("{\"path\":\"a.txt\"}"))
RawBatches == { <<>>, <<RawBash>>, <<RawRead, RawBash>> }

FrameContents ==
    { <<>>, << "a" >>, << "a", "<" >>, << "<", "t", "h", "i" >>, OPEN \o << "p", "<" >> }

Frames == { OllamaFrame(c, b, d) : c \in FrameContents, b \in RawBatches, d \in BOOLEAN }

\* types.ts:220: crypto.randomUUID(), a fresh id for every call
Uuid(i) == << "uuid-1", "uuid-2" >>[i]

\* every frame with tool calls is taken as terminal
IsTerminalToolCalls_AnyFrame(frame) == Len(frame.message.tool_calls) > 0

\* types.ts:216
IsTerminalToolCalls(frame) == frame.done /\ Len(frame.message.tool_calls) > 0

\* types.ts:229
PushesContent(frame) == ~frame.done /\ frame.message.content # <<>>

\* types.ts:222
NormalizeArguments(args) == IF args.isString THEN args.text ELSE JSONStringify(args)

\* types.ts:217-224
ToCalls(raw) ==
    [i \in 1 .. Len(raw) |->
        [id |-> Uuid(i),
         name |-> raw[i].function.name,
         arguments |-> NormalizeArguments(raw[i].function.arguments)]]

Frame == chatFrames[chatIdx + 1]

ChatInit ==
    /\ LoopIdle
    /\ AppIdle
    /\ NdIdle
    /\ tagTokens = <<>>
    /\ tagPos = 0
    /\ segments = <<>>
    /\ machine = InitialMachine
    /\ chatFrames \in SeqsUpTo(Frames, MaxFrames)
    /\ chatIdx = 0
    /\ chatPc = "frames"
    /\ chatOut = <<>>
    /\ pushed = <<>>

\* types.ts:216-227: the terminal frame: yield tool_calls, return
ChatToolCalls ==
    /\ chatPc = "frames"
    /\ chatIdx < Len(chatFrames)
    /\ IsTerminalToolCalls(Frame)
    /\ chatOut' = Append(chatOut, ToolCallsEvent(ToCalls(Frame.message.tool_calls)))
    /\ chatIdx' = chatIdx + 1
    /\ chatPc' = "returned"
    /\ UNCHANGED << chatFrames, pushed, tagVars, ndVars, loopVars, appVars >>

\* types.ts:229-231: the content goes through the think-tag machine
ChatContent ==
    /\ chatPc = "frames"
    /\ chatIdx < Len(chatFrames)
    /\ ~IsTerminalToolCalls(Frame)
    /\ PushesContent(Frame)
    /\ LET r == processThinkChunk(Frame.message.content, machine)
       IN /\ machine' = r.machine
          /\ chatOut' = chatOut \o r.events
    /\ pushed' = Append(pushed, Frame.message.content)
    /\ chatIdx' = chatIdx + 1
    /\ UNCHANGED << chatFrames, chatPc, tagTokens, tagPos, segments, ndVars, loopVars, appVars >>

\* types.ts:215-232: a frame neither branch takes
ChatSkip ==
    /\ chatPc = "frames"
    /\ chatIdx < Len(chatFrames)
    /\ ~IsTerminalToolCalls(Frame)
    /\ ~PushesContent(Frame)
    /\ chatIdx' = chatIdx + 1
    /\ UNCHANGED << chatFrames, chatPc, chatOut, pushed, tagVars, ndVars, loopVars, appVars >>

\* types.ts:215,233: parseNDJSON is exhausted, the generator completes
ChatEnd ==
    /\ chatPc = "frames"
    /\ chatIdx = Len(chatFrames)
    /\ chatPc' = "ended"
    /\ UNCHANGED << chatFrames, chatIdx, chatOut, pushed, tagVars, ndVars, loopVars, appVars >>

ChatNext ==
    \/ ChatToolCalls
    \/ ChatContent
    \/ ChatSkip
    \/ ChatEnd

ChatSpec == ChatInit /\ [][ChatNext]_vars

----------------------------------------------------------------------------
(* C15: a partial sentinel held when the stream ends *)

\* the stream ended while the machine held the start of a sentinel
EndedHoldingPartial == chatPc = "ended" /\ machine.buf # <<>>

\* C15: if the backend stream ends while the think-tag machine still holds a
\* partial sentinel (the content ended with "<" or with a prefix such as
\* "<thi"), the held characters are emitted as part of the segment around
\* them - as text_delta when the partial tag began outside, as thinking when
\* it began inside - and are not dropped.
C15_PartialEmitted ==
    EndedHoldingPartial =>
        /\ chatOut # <<>>
        /\ Last(chatOut).type =
             (IF machine.state = "maybe_open" THEN "text_delta" ELSE "thinking")
        /\ Len(Last(chatOut).content) >= Len(machine.buf)
        /\ Suffix(Last(chatOut).content, Len(machine.buf)) = machine.buf

\* the content a< was pushed, the stream ended, and only a was yielded
C15_Witness ==
    /\ chatPc = "ended"
    /\ pushed = << << "a", "<" >> >>
    /\ machine = [state |-> "maybe_open", buf |-> << "<" >>]
    /\ chatOut = << TextDeltaEvent(<< "a" >>) >>

----------------------------------------------------------------------------
(* C19: the tool_calls event of OllamaProvider.chat *)

\* positions of the tool_calls events yielded
ToolCallsPositions == { i \in DOMAIN chatOut : chatOut[i].type = "tool_calls" }

\* C19: OllamaProvider.chat yields a tool_calls event only for a frame with
\* done = true and a non-empty tool_calls list; it yields at most one; the
\* event carries one ToolCall per raw call, in the same order; and no event
\* follows it.
C19_ToolCallsTerminal ==
    /\ Cardinality(ToolCallsPositions) <= 1
    /\ \A i \in ToolCallsPositions :
         LET raw == chatFrames[chatIdx].message.tool_calls
             calls == chatOut[i].calls
         IN /\ i = Len(chatOut)
            /\ chatPc = "returned"
            /\ chatFrames[chatIdx].done
            /\ Len(raw) > 0
            /\ Len(calls) = Len(raw)
            /\ \A c \in DOMAIN raw :
                 /\ calls[c].name = raw[c].function.name
                 /\ calls[c].arguments
                      = (IF raw[c].function.arguments.isString
                         THEN raw[c].function.arguments.text
                         ELSE JSONStringify(raw[c].function.arguments))
    /\ chatPc = "returned" => ToolCallsPositions # {}

\* content was yielded, then the terminal frame of two calls; a further
\* frame was never read
C19_Witness ==
    /\ chatPc = "returned"
    /\ Len(chatOut) = 2
    /\ Len(Last(chatOut).calls) = 2
    /\ Last(chatOut).calls[1].name = "read_file"
    /\ Last(chatOut).calls[2].name = "bash"

\* a frame with tool calls but done = false went by without a tool_calls event
C19_WitnessNotDone ==
    /\ chatPc = "ended"
    /\ ToolCallsPositions = {}
    /\ \E i \in DOMAIN chatFrames :
         ~chatFrames[i].done /\ Len(chatFrames[i].message.tool_calls) > 0

----------------------------------------------------------------------------
(* C20: which frames have their content pushed through the machine *)

RECURSIVE ContentsDue(_)
\* the contents of the frames that are no terminal tool-calls frame and carry
\* a non-empty content, in order
ContentsDue(fs) ==
    IF fs = <<>> THEN <<>>
    ELSE (IF ~IsTerminalToolCalls(Head(fs)) /\ Head(fs).message.content # <<>>
          THEN << Head(fs).message.content >> ELSE <<>>)
         \o ContentsDue(Tail(fs))

\* C20: every frame consumed that is not a terminal tool-calls frame and
\* carries a non-empty content has that content pushed through the think-tag
\* machine, whatever its done flag is.
C20_ContentPushed == pushed = ContentsDue(SubSeq(chatFrames, 1, chatIdx))

\* a frame with done = true, content a and no tool calls was consumed and
\* nothing was yielded
C20_Witness ==
    /\ chatPc = "ended"
    /\ chatFrames = << OllamaFrame(<< "a" >>, <<>>, TRUE) >>
    /\ pushed = <<>>
    /\ chatOut = <<>>

----------------------------------------------------------------------------
(* parseNDJSON (types.ts:56-73)                                            *)
(*                                                                         *)
(* The response body is a sequence of bytes which the reader delivers in   *)
(* reads of arbitrary sizes.  Bytes: "a" (a character of a frame's JSON    *)
(* text), "SP" (space), "NL" (newline) and "C3" "A9", the two bytes of one *)
(* character.  A frame is identified by its JSON text without surrounding  *)
(* whitespace, which JSON.parse ignores.  One read, with the frames it     *)
(* completes, is one step.                                                 *)

MaxBody == 5    \* most pieces a response body is put together from

BodyTokens == { << "a" >>, << "SP" >>, << "NL" >>, << "C3", "A9" >> }
Bodies == { Flatten(ts) : ts \in SeqsUpTo(BodyTokens, MaxBody) }

\* the character of a single-byte code
CharOf(byte) ==
    CASE byte = "NL" -> "\n"
      [] byte = "SP" -> " "
      [] OTHER -> byte

\* TextDecoder: one byte, given the bytes held of an incomplete character
DecodeByte(r, byte) ==
    IF r.pending # <<>>
    THEN (IF byte = "A9"
          THEN [text |-> Append(r.text, "U+00E9"), pending |-> <<>>]
          ELSE IF byte = "C3"
               THEN [text |-> Append(r.text, "U+FFFD"), pending |-> << "C3" >>]
               ELSE [text |-> r.text \o << "U+FFFD", CharOf(byte) >>, pending |-> <<>>])
    ELSE (IF byte = "C3"
          THEN [text |-> r.text, pending |-> << "C3" >>]
          ELSE IF byte = "A9"
               THEN [text |-> Append(r.text, "U+FFFD"), pending |-> <<>>]
               ELSE [text |-> Append(r.text, CharOf(byte)), pending |-> <<>>])

RECURSIVE DecodeBytes(_, _)
DecodeBytes(r, bytes) ==
    IF bytes = <<>> THEN r ELSE DecodeBytes(DecodeByte(r, Head(bytes)), Tail(bytes))

\* decoder.decode(value): an incomplete character at the end of the read is
\* replaced, nothing is held
Decode_NoStream(held, bytes) ==
    LET r == DecodeBytes([text |-> <<>>, pending |-> <<>>], bytes)
    IN [text |-> r.text \o (IF r.pending # <<>> THEN << "U+FFFD" >> ELSE <<>>),
        pending |-> <<>>]

\* types.ts:64: decoder.decode(value, { stream: true })
Decode(held, bytes) == DecodeBytes([text |-> <<>>, pending |-> held], bytes)

RECURSIVE SplitLines(_, _)
\* types.ts:65: text.split("\n"), cur being the line under way
SplitLines(text, cur) ==
    IF text = <<>> THEN << cur >>
    ELSE IF Head(text) = "\n"
         THEN << cur >> \o SplitLines(Tail(text), <<>>)
         ELSE SplitLines(Tail(text), Append(cur, Head(text)))

IsSpace(ch) == ch \in { " ", "\n" }

RECURSIVE TrimStart(_)
TrimStart(s) == IF s # <<>> /\ IsSpace(Head(s)) THEN TrimStart(Tail(s)) ELSE s

RECURSIVE TrimEnd(_)
TrimEnd(s) ==
    IF s # <<>> /\ IsSpace(s[Len(s)]) THEN TrimEnd(SubSeq(s, 1, Len(s) - 1)) ELSE s

\* line.trim()
Trim(s) == TrimEnd(TrimStart(s))

\* JSON.parse(line): the value of the line's JSON text
JSONParse(line) == Trim(line)

RECURSIVE FramesOf(_)
\* types.ts:67-69: the frames yielded for a list of lines
FramesOf(lines) ==
    IF lines = <<>> THEN <<>>
    ELSE (IF Trim(Head(lines)) # <<>> THEN << JSONParse(Head(lines)) >> ELSE <<>>)
         \o FramesOf(Tail(lines))

\* all but the last element
Front(s) == SubSeq(s, 1, Len(s) - 1)

NdInit ==
    /\ LoopIdle
    /\ AppIdle
    /\ TagIdle
    /\ ChatIdle
    /\ ndBytes \in Bodies
    /\ ndPos = 0
    /\ ndPending = <<>>
    /\ buffer = <<>>
    /\ ndFrames = <<>>
    /\ ndPc = "reading"
    /\ ndReader = "open"

\* types.ts:62-69: a read delivers the next n bytes
NdRead(n) ==
    /\ ndPc = "reading"
    /\ ndPos + n <= Len(ndBytes)
    /\ LET d == Decode(ndPending, SubSeq(ndBytes, ndPos + 1, ndPos + n))
           lines == SplitLines(buffer \o d.text, <<>>)
       IN /\ ndPending' = d.pending
          /\ buffer' = Last(lines)
          /\ ndFrames' = ndFrames \o FramesOf(Front(lines))
    /\ ndPos' = ndPos + n
    /\ UNCHANGED << ndBytes, ndPc, ndReader, loopVars, tagVars, chatVars, appVars >>

\* types.ts:63,72: the reader reports done
NdEnd ==
    /\ ndPc = "reading"
    /\ ndPos = Len(ndBytes)
    /\ ndFrames' = ndFrames \o FramesOf(<< buffer >>)
    /\ ndPc' = "done"
    /\ ndReader' = "ended"
    /\ UNCHANGED << ndBytes, ndPos, ndPending, buffer, loopVars, tagVars, chatVars, appVars >>

\* types.ts:68,215-226, loop.ts:31-37: the consumer closes the generator
\* (return()) while it is suspended at the yield of a frame, as the for await
\* of chat does when chat returns after a tool_calls frame or is itself
\* closed by the loop.  parseNDJSON has no finally block: it ends where it
\* is, the reader is neither cancelled nor released.
NdReturn ==
    /\ ndPc = "reading"
    /\ ndFrames # <<>>
    /\ ndPc' = "returned"
    /\ UNCHANGED << ndBytes, ndPos, ndPending, buffer, ndFrames, ndReader,
                    loopVars, tagVars, chatVars, appVars >>

NdNext ==
    \/ \E n \in 1 .. (2 * MaxBody) : NdRead(n)
    \/ NdEnd
    \/ NdReturn

NdSpec == NdInit /\ [][NdNext]_vars

----------------------------------------------------------------------------
(* C18: the frames of parseNDJSON do not depend on the reads *)

\* the body's bytes up to n, decoded in one piece and split into lines
LinesUpTo(n) == SplitLines(Decode(<<>>, SubSeq(ndBytes, 1, n)).text, <<>>)

\* the frames yielded are those of the body read in one piece: a frame split
\* across reads is yielded once, whole, and a character whose bytes are split
\* across reads is put together again
SameFramesAsOneRead ==
    /\ ndPc = "reading" =>
         /\ ndFrames = FramesOf(Front(LinesUpTo(ndPos)))
         /\ buffer = Last(LinesUpTo(ndPos))
    /\ ndPc = "done" => ndFrames = FramesOf(LinesUpTo(Len(ndBytes)))

\* the text after the last newline of the body
TrailingText == Last(LinesUpTo(Len(ndBytes)))

\* frames yielded for the lines that a newline ended
CompleteFrames == FramesOf(Front(LinesUpTo(Len(ndBytes))))

\* C18 as stated: parseNDJSON yields the same frames for every way of
\* splitting the bytes into reads, and non-empty bytes after the last newline
\* are yielded as a final frame at the end of the stream.
C18_AnyTrailingBytes ==
    /\ SameFramesAsOneRead
    /\ (ndPc = "done" /\ TrailingText # <<>>) =>
         ndFrames = CompleteFrames \o << JSONParse(TrailingText) >>

\* C18, amended: parseNDJSON yields the same frames, in the same order,
\* however the bytes of the body are split into reads: a frame split across
\* reads is yielded once, whole; a character whose bytes are split across
\* reads is put together again; and text after the last newline is yielded as
\* the final frame at the end of the stream if it is not only whitespace,
\* while whitespace-only trailing text yields no frame.
C18_ReadInvariance ==
    /\ SameFramesAsOneRead
    /\ ndPc = "done" =>
         ndFrames = CompleteFrames
                    \o (IF Trim(TrailingText) # <<>>
                        THEN << JSONParse(TrailingText) >> ELSE <<>>)

\* a frame was yielded and a read ended inside the next frame, between the
\* two bytes of a character
C18_Witness ==
    /\ ndPc = "reading"
    /\ ndFrames # <<>>
    /\ buffer # <<>>
    /\ ndPending = << "C3" >>

\* the stream ended with only a space after the last newline: no final frame
C18_WitnessBlank ==
    /\ ndPc = "done"
    /\ TrailingText = << " " >>
    /\ ndFrames = << << "a" >> >>

\* the stream ended with text after the last newline, yielded as last frame
C18_WitnessFinal ==
    /\ ndPc = "done"
    /\ buffer = << "U+00E9", "a" >>
    /\ Len(ndFrames) = 2
    /\ Last(ndFrames) = << "U+00E9", "a" >>

----------------------------------------------------------------------------
(* serializeMessages and resolveToolName (types.ts:238-271)                *)
(*                                                                         *)
(* A message list is serialized in one step.  The arguments of a tool call *)
(* are JSON text; a JSON value is an object of at most one key or a        *)
(* string.  A toolCallId that is absent or empty is "".                    *)

MaxMsgs == 3    \* most messages in a list handed to serializeMessages

\* the object {}
EmptyObject == ObjectArguments("", "")

\* the JSON values the argument texts denote
JsonValues == { EmptyObject, ObjectArguments("command", "ls"), StringArguments("ls") }

\* JSON.stringify(v)
JSONText(v) == IF v.isString THEN "\"" \o v.text \o "\"" ELSE JSONStringify(v)

\* a JSON text of v with insignificant whitespace
SpacedText(v) ==
    IF v.isString \/ v.key = "" THEN " " \o JSONText(v)
    ELSE "{ \"" \o v.key \o "\": \"" \o v.val \o "\" }"

\* JSON.parse(raw): the value the text denotes; none when it throws
Denoted(raw) == { v \in JsonValues : raw \in { JSONText(v), SpacedText(v) } }

\* the argument is dropped whatever it is
safeParseJson_Empty(raw) == EmptyObject

\* types.ts:47-53: JSON.parse(raw), {} when it throws
safeParseJson(raw) ==
    IF Denoted(raw) = {} THEN EmptyObject ELSE CHOOSE v \in Denoted(raw) : TRUE

\* msg.role === "assistant" && msg.toolCalls
HasToolCalls(msg) == msg.role = "assistant" /\ "toolCalls" \in DOMAIN msg

\* msg.toolCalls.find((tc) => tc.id === callId): the positions that match
Matches(msg, callId) == { k \in DOMAIN msg.toolCalls : msg.toolCalls[k].id = callId }

\* the first element find() returns
Found(msg, callId) ==
    msg.toolCalls[CHOOSE k \in Matches(msg, callId) : \A l \in Matches(msg, callId) : k <= l]

RECURSIVE ScanDown(_, _, _)
\* types.ts:262-269: for (let i = resultIndex - 1; i >= 0; i--)
ScanDown(msgs, i, callId) ==
    IF i < 1 THEN callId
    ELSE IF HasToolCalls(msgs[i]) /\ Matches(msgs[i], callId) # {}
         THEN Found(msgs[i], callId).name
         ELSE ScanDown(msgs, i - 1, callId)

\* the earliest assistant message that has the id wins
resolveToolName_Earliest(msgs, resultIndex, callId) ==
    LET holders == { j \in 1 .. (resultIndex - 1) :
                       HasToolCalls(msgs[j]) /\ Matches(msgs[j], callId) # {} }
    IN IF callId = "" THEN "unknown"
       ELSE IF holders = {} THEN callId
            ELSE Found(msgs[CHOOSE j \in holders : \A h \in holders : j <= h], callId).name

\* types.ts:260-271
resolveToolName(msgs, resultIndex, callId) ==
    IF callId = "" THEN "unknown" ELSE ScanDown(msgs, resultIndex - 1, callId)

\* types.ts:238-257
serializeMessages(msgs) ==
    [i \in DOMAIN msgs |->
        LET msg == msgs[i]
        IN IF msg.role = "tool"
           THEN [role |-> "tool",
                 tool_name |-> resolveToolName(msgs, i, msg.toolCallId),
                 content |-> msg.content]
           ELSE IF HasToolCalls(msg)
                THEN [role |-> "assistant",
                      content |-> msg.content,
                      tool_calls |->
                        [k \in DOMAIN msg.toolCalls |->
                           OllamaToolCall(msg.toolCalls[k].name,
                                          safeParseJson(msg.toolCalls[k].arguments))]]
                ELSE [role |-> msg.role, content |-> msg.content]]

\* a call of the context
CallWith(id, name, arguments) == [id |-> id, name |-> name, arguments |-> arguments]

\* the tool calls of the contexts tried: canonical JSON text, JSON text with
\* whitespace, text that is no JSON, and the JSON text of a string
SerCalls ==
    { CallWith("c1", "bash", "{\"command\":\"ls\"}"),
      CallWith("c1", "read_file", "{}"),
      CallWith("c2", "bash", "{ \"command\": \"ls\" }"),
      CallWith("c2", "read_file", "ls -la"),
      CallWith("c2", "bash", "\"ls\"") }

SerBatches ==
    { <<>> } \cup { << c >> : c \in SerCalls }
    \cup { << CallWith("c1", "bash", "{\"command\":\"ls\"}"), CallWith("c2", "read_file", "ls -la") >>,
           << CallWith("c1", "bash", "{\"command\":\"ls\"}"), CallWith("c1", "read_file", "{}") >> }

SerMessages ==
    { UserMessage("Hello") }
    \cup { AssistantMessage(b) : b \in SerBatches }
    \cup { ToolMessage("ok", id) : id \in { "c1", "c2", "c3", "" } }

SerInit ==
    /\ LoopIdle
    /\ TagIdle
    /\ ChatIdle
    /\ NdIdle
    /\ SseIdle
    /\ DbIdle
    /\ RouteIdle
    /\ HookIdle
    /\ serMessages \in SeqsUpTo(SerMessages, MaxMsgs)
    /\ serWire = <<>>
    /\ serPc = "call"

\* types.ts:186: messages: this.serializeMessages(messages)
Serialize ==
    /\ serPc = "call"
    /\ serWire' = serializeMessages(serMessages)
    /\ serPc' = "done"
    /\ UNCHANGED << serMessages, loopVars, providerVars, sseVars, dbVars, routeVars, hookVars >>

SerNext == Serialize

SerSpec == SerInit /\ [][SerNext]_vars

----------------------------------------------------------------------------
(* C21: the tool_name of a serialized tool message *)

\* the assistant messages below position i whose toolCalls contain the id
HoldersBelow(i, id) ==
    { j \in 1 .. (i - 1) : HasToolCalls(serMessages[j]) /\ Matches(serMessages[j], id) # {} }

\* C21: when a message list is serialized, each tool message with toolCallId
\* c at position i gets as tool_name the name of the call with id c in the
\* nearest assistant message below i whose toolCalls contain c; if no
\* assistant message below i contains c, tool_name is c itself.
C21_ToolName ==
    serPc = "done" =>
        \A i \in DOMAIN serMessages :
            LET msg == serMessages[i]
            IN (msg.role = "tool" /\ msg.toolCallId # "") =>
                 LET holders == HoldersBelow(i, msg.toolCallId)
                 IN serWire[i].tool_name =
                      (IF holders = {} THEN msg.toolCallId
                       ELSE Found(serMessages[CHOOSE j \in holders : \A h \in holders : h <= j],
                                  msg.toolCallId).name)

\* two assistant messages hold c1 under different names; the tool message
\* after them got the name of the nearer one
C21_Witness ==
    /\ serPc = "done"
    /\ Len(serMessages) = 3
    /\ serMessages[3] = ToolMessage("ok", "c1")
    /\ HoldersBelow(3, "c1") = { 1, 2 }
    /\ Found(serMessages[1], "c1").name = "bash"
    /\ Found(serMessages[2], "c1").name = "read_file"
    /\ serWire[3].tool_name = "read_file"

\* no assistant message below holds the id: tool_name is the id
C21_WitnessFallback ==
    /\ serPc = "done"
    /\ serMessages = << AssistantMessage(<< CallWith("c1", "bash", "{\"command\":\"ls\"}") >>),
                        ToolMessage("ok", "c3") >>
    /\ serWire[2].tool_name = "c3"

----------------------------------------------------------------------------
(* C22: serializing the tool calls and parsing them again *)

\* types.ts:216-224 applied to the tool_calls of the serialized message i
Reparsed(i) == ToCalls(serWire[i].tool_calls)

\* the positions of the assistant messages that carry tool calls
CallHolders == { i \in DOMAIN serMessages : HasToolCalls(serMessages[i]) }

\* C22 as stated: serializing a context with serializeMessages and parsing
\* the serialized tool calls again recovers, for every tool call of the
\* context, its original (name, arguments, id) triple.
C22_TripleRecovered ==
    serPc = "done" =>
        \A i \in CallHolders : \A k \in DOMAIN serMessages[i].toolCalls :
            LET call == serMessages[i].toolCalls[k]
            IN /\ Reparsed(i)[k].name = call.name
               /\ Reparsed(i)[k].arguments = call.arguments
               /\ Reparsed(i)[k].id = call.id

\* C22, amended: serializing a context and parsing the serialized tool calls
\* again recovers the name of every tool call; the arguments come back as
\* the canonical JSON text of the object the original text denotes (the
\* original text itself when it was canonical), as {} when the original text
\* is no JSON, and as the bare string when the original text denotes a JSON
\* string; the id is not part of the wire format and the parsed call gets a
\* fresh one.
C22_NameAndArguments ==
    serPc = "done" =>
        \A i \in CallHolders :
            /\ Len(Reparsed(i)) = Len(serMessages[i].toolCalls)
            /\ \A k \in DOMAIN serMessages[i].toolCalls :
                 LET call == serMessages[i].toolCalls[k]
                     back == Reparsed(i)[k]
                 IN /\ back.name = call.name
                    /\ back.id = Uuid(k)
                    /\ \A v \in Denoted(call.arguments) :
                         back.arguments = (IF v.isString THEN v.text ELSE JSONStringify(v))
                    /\ Denoted(call.arguments) = {} => back.arguments = "{}"
                    /\ call.arguments \in { JSONStringify(v) : v \in { w \in JsonValues : ~w.isString } }
                         => back.arguments = call.arguments

\* a batch of a call with canonical arguments and one whose arguments are no
\* JSON was serialized: the first came back with its arguments and a fresh
\* id, the second with {}
C22_Witness ==
    /\ serPc = "done"
    /\ Len(serMessages) = 1
    /\ 1 \in CallHolders
    /\ serMessages[1].toolCalls =
         << CallWith("c1", "bash", "{\"command\":\"ls\"}"), CallWith("c2", "read_file", "ls -la") >>
    /\ Reparsed(1) =
         << CallWith("uuid-1", "bash", "{\"command\":\"ls\"}"), CallWith("uuid-2", "read_file", "{}") >>

----------------------------------------------------------------------------
(* loopToSSEStream (adapters.ts:11-35)                                     *)
(*                                                                         *)
(* The wrapped generator is a script: the events it yields when resumed    *)
(* and how it ends after them, by returning or by throwing.  The stream is *)
(* a ReadableStream with the default queuing strategy: pull is called      *)
(* while the stream is readable, no pull is in flight and the queue is     *)
(* below the high water mark.  A pull is in flight from the call of        *)
(* gen.next() until the generator yields, returns or throws; the rest of   *)
(* pull belongs to that step.  controller.enqueue and controller.close     *)
(* throw a TypeError unless the stream is readable and not yet closed.     *)

MaxScript == 3       \* most events a generator script yields
HighWaterMark == 1   \* of the default queuing strategy

RECURSIVE JoinChars(_)
\* the string of a sequence of characters
JoinChars(cs) == IF cs = <<>> THEN "" ELSE Head(cs) \o JoinChars(Tail(cs))

\* JSON.stringify(event)
EventJson(ev) ==
    CASE ev.type = "text_delta" ->
           "{\"type\":\"text_delta\",\"content\":\"" \o JoinChars(ev.content) \o "\"}"
      [] ev.type = "error" -> "{\"type\":\"error\",\"message\":\"" \o ev.message \o "\"}"
      [] ev.type = "done" -> "{\"type\":\"done\"}"
      [] ev.type = "thinking" ->
           "{\"type\":\"thinking\",\"content\":\"" \o JoinChars(ev.content) \o "\"}"
      [] ev.type = "text" -> "{\"type\":\"text\",\"content\":\"" \o JoinChars(ev.content) \o "\"}"
      [] ev.type = "tool_call" ->
           "{\"type\":\"tool_call\",\"call\":{\"id\":\"" \o ev.call.id \o "\",\"name\":\""
               \o ev.call.name \o "\",\"arguments\":\"" \o ev.call.arguments \o "\"}}"
      [] ev.type = "tool_result" ->
           "{\"type\":\"tool_result\",\"callId\":\"" \o ev.callId \o "\",\"result\":\""
               \o ev.result \o "\"}"
      [] ev.type = "conversation" ->
           "{\"type\":\"conversation\",\"conversationId\":\"" \o ToString(ev.conversationId) \o "\"}"

\* adapters.ts:3-5
encodeFrame(ev) == "data: " \o EventJson(ev) \o "\n\n"

\* the stream is left open after done
ClosesAfter_Never(ev) == FALSE

\* adapters.ts:24
ClosesAfter(ev) == ev.type = "done"

\* enqueue and close never throw
ControllerOpen_Always(state) == TRUE

\* controller.enqueue / controller.close succeed in this state, else throw
ControllerOpen(state) == state = "readable"

ScriptEvents == { TextDeltaEvent(<< "a" >>), ErrorEvent("boom"), DoneEvent }
\* after its events the generator returns (<<>>) or throws a value
ScriptEndings == { <<>> } \cup { << t >> : t \in ProviderThrows }
GenScripts ==
    { [yields |-> ys, throws |-> en] : ys \in SeqsUpTo(ScriptEvents, MaxScript),
                                       en \in ScriptEndings }

SseInit ==
    /\ LoopIdle
    /\ TagIdle
    /\ ChatIdle
    /\ NdIdle
    /\ SerIdle
    /\ DbIdle
    /\ RouteIdle
    /\ HookIdle
    /\ genScript \in GenScripts
    /\ genPos = 0
    /\ genState = "suspended"
    /\ onCancelGiven \in BOOLEAN
    /\ onCancelCalls = 0
    /\ stState = "readable"
    /\ stQueue = <<>>
    /\ delivered = <<>>
    /\ lateSteps = 0

\* adapters.ts:16-18: the stream calls pull, pull calls gen.next()
Pull ==
    /\ stState = "readable"
    /\ genState = "suspended"
    /\ Len(stQueue) < HighWaterMark
    /\ genState' = "running"
    /\ UNCHANGED << genScript, genPos, onCancelGiven, onCancelCalls, stState, stQueue,
                    delivered, lateSteps, loopVars, providerVars, serVars, dbVars, routeVars, hookVars >>

\* adapters.ts:18,23-24: the generator yields; the frame is enqueued and the
\* stream closed after done.  On a stream that is no longer readable enqueue
\* throws, and so does the enqueue of the catch block (adapters.ts:27).
GenYield ==
    /\ genState = "running"
    /\ genPos < Len(genScript.yields)
    /\ LET ev == genScript.yields[genPos + 1]
       IN IF ControllerOpen(stState)
          THEN /\ stQueue' = Append(stQueue, encodeFrame(ev))
               /\ stState' = IF ClosesAfter(ev) THEN "closing" ELSE stState
          ELSE UNCHANGED << stQueue, stState >>
    /\ genPos' = genPos + 1
    /\ genState' = "suspended"
    /\ lateSteps' = lateSteps + (IF stState = "cancelled" THEN 1 ELSE 0)
    /\ UNCHANGED << genScript, onCancelGiven, onCancelCalls, delivered,
                    loopVars, providerVars, serVars, dbVars, routeVars, hookVars >>

\* adapters.ts:18-22: the generator returns
GenReturn ==
    /\ genState = "running"
    /\ genPos = Len(genScript.yields)
    /\ genScript.throws = <<>>
    /\ genState' = "completed"
    /\ stState' = IF ControllerOpen(stState)
                  THEN (IF stQueue = <<>> THEN "closed" ELSE "closing")
                  ELSE stState
    /\ lateSteps' = lateSteps + (IF stState = "cancelled" THEN 1 ELSE 0)
    /\ UNCHANGED << genScript, genPos, onCancelGiven, onCancelCalls, stQueue, delivered,
                    loopVars, providerVars, serVars, dbVars, routeVars, hookVars >>

\* adapters.ts:25-29: the generator throws
GenThrow ==
    /\ genState = "running"
    /\ genPos = Len(genScript.yields)
    /\ genScript.throws # <<>>
    /\ genState' = "completed"
    /\ IF ControllerOpen(stState)
       THEN /\ stQueue' = Append(stQueue, encodeFrame(ErrorEvent(ErrMessage(genScript.throws[1]))))
            /\ stState' = "closing"
       ELSE UNCHANGED << stQueue, stState >>
    /\ lateSteps' = lateSteps + (IF stState = "cancelled" THEN 1 ELSE 0)
    /\ UNCHANGED << genScript, genPos, onCancelGiven, onCancelCalls, delivered,
                    loopVars, providerVars, serVars, dbVars, routeVars, hookVars >>

\* the consumer reads a frame; a closed stream is done once its queue is empty
Read ==
    /\ stQueue # <<>>
    /\ delivered' = Append(delivered, Head(stQueue))
    /\ stQueue' = Tail(stQueue)
    /\ stState' = IF stState = "closing" /\ Tail(stQueue) = <<>> THEN "closed" ELSE stState
    /\ UNCHANGED << genScript, genPos, genState, onCancelGiven, onCancelCalls,
                    lateSteps, loopVars, providerVars, serVars, dbVars, routeVars, hookVars >>

\* adapters.ts:31-33: the consumer cancels; the stream drops its queue and
\* calls cancel(), which calls onCancel if there is one
Cancel ==
    /\ stState \in { "readable", "closing" }
    /\ stState' = "cancelled"
    /\ stQueue' = <<>>
    /\ onCancelCalls' = onCancelCalls + (IF onCancelGiven THEN 1 ELSE 0)
    /\ UNCHANGED << genScript, genPos, genState, onCancelGiven, delivered,
                    lateSteps, loopVars, providerVars, serVars, dbVars, routeVars, hookVars >>

SseNext ==
    \/ Pull
    \/ GenYield
    \/ GenReturn
    \/ GenThrow
    \/ Read
    \/ Cancel

SseSpec == SseInit /\ [][SseNext]_vars

----------------------------------------------------------------------------
(* C23: one frame per event, in order, closed after done *)

RECURSIVE UpToDone(_)
\* the events of a list up to and including the first done
UpToDone(evs) ==
    IF evs = <<>> THEN <<>>
    ELSE IF Head(evs).type = "done" THEN << Head(evs) >>
         ELSE << Head(evs) >> \o UpToDone(Tail(evs))

\* the events the generator has yielded so far
Yielded == SubSeq(genScript.yields, 1, genPos)

\* the frames of the events yielded so far, up to and including done
EventFrames == [i \in DOMAIN UpToDone(Yielded) |-> encodeFrame(UpToDone(Yielded)[i])]

\* the generator has thrown
Threw == genState = "completed" /\ genScript.throws # <<>>

\* the frames that entered the stream and were not dropped by a cancel
Enqueued == delivered \o stQueue

\* s is a prefix of t
IsPrefix(s, t) == Len(s) <= Len(t) /\ SubSeq(t, 1, Len(s)) = s

\* C23: loopToSSEStream encodes every event the generator yields, up to and
\* including done, as exactly one frame, delivers the frames in the order of
\* the events, and closes the stream right after the done frame, so that no
\* frame is delivered after it.
C23_FramesInOrder ==
    /\ stState \in { "readable", "closing", "closed" } =>
         /\ IsPrefix(EventFrames, Enqueued)
         /\ ~Threw => Enqueued = EventFrames
    /\ stState = "cancelled" => IsPrefix(delivered, EventFrames)
    /\ (stState # "idle" /\ Yielded # <<>> /\ Last(Yielded).type = "done") =>
         /\ stState \in { "closing", "closed", "cancelled" }
         /\ genState = "suspended"
         /\ \A i \in 1 .. (genPos - 1) : Yielded[i].type # "done"
         /\ stState = "closed" =>
              delivered = EventFrames /\ Last(delivered) = encodeFrame(DoneEvent)

\* a text_delta, an error and done were yielded, the three frames were read
\* in that order and the stream is closed
C23_Witness ==
    /\ stState = "closed"
    /\ genPos = 3
    /\ delivered = << "data: {\"type\":\"text_delta\",\"content\":\"a\"}\n\n",
                      "data: {\"type\":\"error\",\"message\":\"boom\"}\n\n",
                      "data: {\"type\":\"done\"}\n\n" >>

\* done was yielded first: the events the script has after it were never
\* asked for
C23_WitnessAfterDone ==
    /\ stState = "closed"
    /\ genPos = 1
    /\ Len(genScript.yields) = 3
    /\ delivered = << encodeFrame(DoneEvent) >>

----------------------------------------------------------------------------
(* C24: what a cancel does to the wrapped generator *)

\* C24: when the consumer cancels the stream, the adapter terminates the
\* wrapped generator early: once the stream is cancelled and no step of the
\* generator is in flight, the generator is completed, and it takes no step
\* that was not in flight when the stream was cancelled.  The adapter is
\* taken as the chat route builds it, without an onCancel.
C24_GeneratorTerminated ==
    (stState = "cancelled" /\ ~onCancelGiven) =>
        /\ genState # "running" => genState = "completed"
        /\ lateSteps <= 1

\* the stream was cancelled while the generator was suspended after its
\* first event: the generator is still suspended, with events left to yield
C24_Witness ==
    /\ stState = "cancelled"
    /\ ~onCancelGiven
    /\ onCancelCalls = 0
    /\ genState = "suspended"
    /\ genPos = 1
    /\ lateSteps = 0
    /\ Len(genScript.yields) = 3

----------------------------------------------------------------------------
(* C26: no frame after a cancel *)

----------------------------------------------------------------------------
(* C27: the generator throws *)

\* the message of a thrown value: that of an Error, else the value as string
MessageOf(t) == IF t.isError THEN t.message ELSE t.value

\* C27: if the wrapped generator throws, the adapter enqueues one error frame
\* carrying the thrown message after the frames of the events yielded before
\* and closes the stream; the earlier frames are unaffected.
C27_SyntheticError ==
    (Threw /\ stState # "cancelled") =>
        /\ Enqueued = EventFrames
                      \o << encodeFrame(ErrorEvent(MessageOf(genScript.throws[1]))) >>
        /\ stState \in { "closing", "closed" }
        /\ stState = "closed" <=> stQueue = <<>>

\* the generator yielded a text_delta and then threw a string: the consumer
\* read the text frame and the synthetic error frame, the stream is closed
C27_Witness ==
    /\ Threw
    /\ stState = "closed"
    /\ genScript.throws = << ThrownString("Connection reset") >>
    /\ delivered = << encodeFrame(TextDeltaEvent(<< "a" >>)),
                      "data: {\"type\":\"error\",\"message\":\"Connection reset\"}\n\n" >>

----------------------------------------------------------------------------
(* C28: error then done *)

\* the generator yields done right after every error event, as runLoop does
LoopShaped ==
    \A i \in DOMAIN genScript.yields :
        genScript.yields[i].type = "error" =>
            i < Len(genScript.yields) /\ genScript.yields[i + 1].type = "done"

\* position i of the delivered frames holds an error frame
IsErrorFrame(f) == \E m \in { "boom" } \cup { MessageOf(t) : t \in ProviderThrows } :
                      f = encodeFrame(ErrorEvent(m))

\* C28: every failure reaches the consumer as an error frame followed by a
\* done frame before the stream closes, both when the generator yields the
\* error itself and when it throws and the adapter catches the throw.
C28_ErrorThenDone ==
    (LoopShaped /\ stState = "closed") =>
        \A i \in DOMAIN delivered :
            IsErrorFrame(delivered[i]) =>
                i < Len(delivered) /\ delivered[i + 1] = encodeFrame(DoneEvent)

\* the generator threw without having yielded: the stream closed after the
\* synthetic error frame, no done frame was delivered
C28_Witness ==
    /\ Threw
    /\ genScript.yields = <<>>
    /\ stState = "closed"
    /\ delivered = << encodeFrame(ErrorEvent("Network failure")) >>

\* the generator yielded error and done as the loop does: both frames were
\* delivered before the stream closed
C28_WitnessYielded ==
    /\ stState = "closed"
    /\ genScript.yields = << ErrorEvent("boom"), DoneEvent >>
    /\ delivered = << encodeFrame(ErrorEvent("boom")), encodeFrame(DoneEvent) >>

----------------------------------------------------------------------------
(* C25: closing the provider stream releases the backend response *)

\* C25: when the loop generator is terminated early while a provider turn is
\* consumed, or leaves a provider stream at a tool_calls event, the frame
\* generator under the provider stream is closed and the backend response is
\* released - its body was read to the end or its reader cancelled - before
\* the close returns.
C25_ResponseReleased == ndPc = "returned" => ndReader # "open"

\* the frame generator was closed after it had yielded a frame, with bytes
\* of the body left unread; the reader is still open
C25_Witness ==
    /\ ndPc = "returned"
    /\ ndReader = "open"
    /\ Len(ndFrames) = 1
    /\ ndPos < Len(ndBytes)

----------------------------------------------------------------------------
(* The message store (db/queries.ts)                                       *)
(*                                                                         *)
(* A conversation id is the number of the randomUUID() call that made it;  *)
(* 0 is an id no conversation has.  Foreign keys are enforced              *)
(* (db/index.ts:18): a message row must reference a conversation row.      *)
(* A message row keeps the fields of SaveMessageInput; toolCalls absent is *)
(* <<>>, toolCallId absent is "", content null is <<>>.  createdAt is the   *)
(* value Date.now() gave to saveMessage: the wall clock, which gives the   *)
(* same value to two calls within a millisecond and can be set back.       *)

MaxConvs == 2    \* most conversations created
MaxRows == 3     \* most message rows inserted in the store alone

\* SaveMessageInput
MessageRow(conv, role, content, calls, callId) ==
    [conversationId |-> conv, role |-> role, content |-> content,
     toolCalls |-> calls, toolCallId |-> callId]

\* the values of Date.now()
Clock == { 0, 1 }

\* queries.ts:60-68: the row inserted for an input at a time
Stamped(row, now) == [createdAt |-> now] @@ row

\* the insert of saveMessage passes the foreign key check
ReferencesConversation(row) == row.conversationId \in dbConversations

\* the message rows stay
RowsWithout_Keep(rows, id) == rows

\* queries.ts:92: tx.delete(messages).where(eq(messages.conversationId, id))
RowsWithout(rows, id) == SelectSeq(rows, LAMBDA r : r.conversationId # id)

DbRows ==
    { MessageRow(c, "user", << "h" >>, <<>>, "") : c \in 0 .. MaxConvs }
    \cup { MessageRow(c, "tool", << "o" >>, <<>>, "c1") : c \in 0 .. MaxConvs }

DbInit ==
    /\ LoopIdle
    /\ TagIdle
    /\ ChatIdle
    /\ NdIdle
    /\ SerIdle
    /\ SseIdle
    /\ RouteIdle
    /\ HookIdle
    /\ dbConversations = {}
    /\ dbMessages = <<>>
    /\ dbNextId = 0
    /\ dbLast = [op |-> "none", id |-> 0, ok |-> TRUE]
    /\ dbReturned = <<>>

\* queries.ts:9-17
CreateConversation ==
    /\ dbNextId < MaxConvs
    /\ dbNextId' = dbNextId + 1
    /\ dbConversations' = dbConversations \cup { dbNextId + 1 }
    /\ dbLast' = [op |-> "createConversation", id |-> dbNextId + 1, ok |-> TRUE]
    /\ dbReturned' = <<>>
    /\ UNCHANGED << dbMessages, loopVars, providerVars, serVars, sseVars, routeVars, hookVars >>

\* queries.ts:55-78: the insert throws when the conversation does not exist
SaveMessage(row, now) ==
    /\ Len(dbMessages) < MaxRows
    /\ dbMessages' = IF ReferencesConversation(row)
                     THEN Append(dbMessages, Stamped(row, now)) ELSE dbMessages
    /\ dbLast' = [op |-> "saveMessage", id |-> row.conversationId,
                  ok |-> ReferencesConversation(row)]
    /\ dbReturned' = <<>>
    /\ UNCHANGED << dbConversations, dbNextId, loopVars, providerVars, serVars, sseVars, routeVars, hookVars >>

\* the orders in which n rows can come back
Orders(n) == { p \in [1 .. n -> 1 .. n] : \A i, j \in 1 .. n : p[i] = p[j] => i = j }

\* queries.ts:31-36: the rows of a conversation ORDER BY created_at; rows of
\* equal created_at come in an order the statement does not fix
OrderByCreatedAt(rows) ==
    LET n == Len(rows)
    IN { [i \in 1 .. n |-> rows[p[i]]] :
           p \in { q \in Orders(n) :
                     \A i, j \in 1 .. n : i < j => rows[q[i]].createdAt <= rows[q[j]].createdAt } }

\* queries.ts:27-45: null (ok FALSE) for an unknown conversation
GetConversationWithMessages(id) ==
    /\ dbLast' = [op |-> "getConversationWithMessages", id |-> id, ok |-> id \in dbConversations]
    /\ dbReturned' \in
         IF id \in dbConversations
         THEN OrderByCreatedAt(SelectSeq(dbMessages, LAMBDA r : r.conversationId = id))
         ELSE { <<>> }
    /\ UNCHANGED << dbConversations, dbMessages, dbNextId,
                    loopVars, providerVars, serVars, sseVars, routeVars, hookVars >>

\* queries.ts:89-97: both deletes in one transaction; ok is the value returned
DeleteConversation(id) ==
    /\ dbMessages' = RowsWithout(dbMessages, id)
    /\ dbConversations' = dbConversations \ { id }
    /\ dbLast' = [op |-> "deleteConversation", id |-> id, ok |-> id \in dbConversations]
    /\ dbReturned' = <<>>
    /\ UNCHANGED << dbNextId, loopVars, providerVars, serVars, sseVars, routeVars, hookVars >>

DbNext ==
    \/ CreateConversation
    \/ \E row \in DbRows, now \in Clock : SaveMessage(row, now)
    \/ \E id \in 0 .. MaxConvs : GetConversationWithMessages(id)
    \/ \E id \in 0 .. MaxConvs : DeleteConversation(id)

DbSpec == DbInit /\ [][DbNext]_vars

----------------------------------------------------------------------------
(* C30: deleteConversation leaves no orphan *)

\* the rows of a conversation
RowsOf(id) == SelectSeq(dbMessages, LAMBDA r : r.conversationId = id)

\* C30: deleteConversation(id) removes the conversation row and all of its
\* message rows in one step, and after any sequence of createConversation,
\* saveMessage and deleteConversation no message row references a
\* conversation that does not exist.
C30_NoOrphan ==
    /\ \A i \in DOMAIN dbMessages : dbMessages[i].conversationId \in dbConversations
    /\ dbLast.op = "deleteConversation" =>
         dbLast.id \notin dbConversations /\ RowsOf(dbLast.id) = <<>>

\* two conversations held rows; the first was deleted with its rows, the
\* row of the second stayed
C30_Witness ==
    /\ dbLast = [op |-> "deleteConversation", id |-> 1, ok |-> TRUE]
    /\ dbConversations = { 2 }
    /\ Len(dbMessages) = 1
    /\ dbMessages[1].conversationId = 2

\* a save for the deleted conversation was refused
C30_WitnessRefused ==
    /\ dbLast = [op |-> "saveMessage", id |-> 1, ok |-> FALSE]
    /\ dbNextId = 1
    /\ dbConversations = {}
    /\ dbMessages = <<>>

----------------------------------------------------------------------------
(* The chat route (api/chat/route.ts:27-130)                               *)
(*                                                                         *)
(* One POST request with valid messages and no conversationId.  tracked()  *)
(* wraps runLoop: the loop takes a step only while tracked() waits for its *)
(* next event, and tracked() handles each event - the inserts included -   *)
(* before it yields it.  The stream is built without an onCancel, so after *)
(* a cancel tracked() is never resumed (adapters.ts:31-33).  maxIterations *)
(* is 20 in the route and at most MaxIter here.  The inserts of a request  *)
(* may start to fail at any insert; tracked() swallows the failure.        *)

\* route.ts:59: the last message of role user
LastUser(msgs) ==
    LET us == { i \in DOMAIN msgs : msgs[i].role = "user" }
    IN msgs[CHOOSE i \in us : \A j \in us : j <= i]

\* saveMessage(db, input) as the route calls it: the rows after the call.
\* The route reads no createdAt; its inserts are made at time 0.
Saved(row) ==
    IF ~dbDown /\ ReferencesConversation(row)
    THEN Append(dbMessages, Stamped(row, 0)) ELSE dbMessages

\* the tool row is not written
TrackedRows_NoToolRow(ev, content) ==
    CASE ev.type = "tool_call" -> << MessageRow(rtConv, "assistant", <<>>, << ev.call >>, "") >>
      [] ev.type = "done" /\ content # <<>> -> << MessageRow(rtConv, "assistant", content, <<>>, "") >>
      [] OTHER -> <<>>

\* route.ts:96-121: the rows tracked() inserts for an event
TrackedRows(ev, content) ==
    CASE ev.type = "tool_call" -> << MessageRow(rtConv, "assistant", <<>>, << ev.call >>, "") >>
      [] ev.type = "tool_result" -> << MessageRow(rtConv, "tool", << ev.result >>, <<>>, ev.callId) >>
      [] ev.type = "done" /\ content # <<>> -> << MessageRow(rtConv, "assistant", content, <<>>, "") >>
      [] OTHER -> <<>>

\* route.ts:91-95: assistantContent after an event
ContentAfter(ev, content) ==
    CASE ev.type = "text_delta" -> content \o ev.content
      [] ev.type = "tool_call" -> <<>>
      [] OTHER -> content

RouteInit ==
    /\ LoopInit
    /\ maxIterations = MaxIter
    /\ systemPrompt = ""
    /\ TagIdle
    /\ ChatIdle
    /\ NdIdle
    /\ SerIdle
    /\ SseIdle
    /\ DbIdle
    /\ HookIdle
    /\ rtPc = "start"
    /\ rtConv = 0
    /\ rtPos = 0
    /\ assistantContent = <<>>
    /\ dbDown \in BOOLEAN

\* route.ts:59-86: the conversation is created and the user message saved;
\* a failing insert ends the request with status 500
RouteStart ==
    /\ rtPc = "start"
    /\ dbNextId < MaxConvs
    /\ LET id == dbNextId + 1
           row == MessageRow(id, "user", LastUser(messages0).content, <<>>, "")
       IN /\ dbNextId' = id
          /\ dbConversations' = dbConversations \cup { id }
          /\ rtConv' = id
          /\ dbMessages' = IF dbDown THEN dbMessages ELSE Append(dbMessages, Stamped(row, 0))
          /\ dbLast' = [op |-> "saveMessage", id |-> id, ok |-> ~dbDown]
          /\ rtPc' = IF dbDown THEN "failed" ELSE "running"
    /\ UNCHANGED << rtPos, assistantContent, dbDown, dbReturned,
                    loopVars, providerVars, serVars, sseVars, hookVars >>

\* route.ts:89-124: tracked() handles the next event of the loop
Track ==
    /\ rtPc = "running"
    /\ rtPos < Len(events)
    /\ LET ev == events[rtPos + 1]
           content == ContentAfter(ev, assistantContent)
           rows == TrackedRows(ev, content)
       IN /\ assistantContent' = content
          /\ dbMessages' = IF rows = <<>> THEN dbMessages ELSE Saved(rows[1])
          /\ dbLast' = IF rows = <<>> THEN dbLast
                       ELSE [op |-> "saveMessage", id |-> rtConv,
                             ok |-> ~dbDown /\ ReferencesConversation(rows[1])]
    /\ rtPos' = rtPos + 1
    /\ UNCHANGED << rtPc, rtConv, dbDown, dbConversations, dbNextId, dbReturned,
                    loopVars, providerVars, serVars, sseVars, hookVars >>

\* loop.ts:12-79: a step of runLoop, made while tracked() waits for it
LoopStep ==
    /\ rtPc = "running"
    /\ rtPos = Len(events)
    /\ \/ BuildContext
       \/ OpenTurn
       \/ MaxIterationsReached
       \/ \E ev \in ProviderDeltas : ProviderDelta(ev)
       \/ \E batch \in ProviderBatches : ProviderToolCalls(batch)
       \/ ProviderEnd
       \/ \E err \in ProviderThrows : ProviderThrow(err)
       \/ FinalText
       \/ FinalNoText
       \/ EmptyToolCalls
       \/ PushAssistant
       \/ YieldToolCall
       \/ StartExecute
       \/ \E o \in UNION { RegistryExecute(c.name) : c \in ProviderCalls } : SettleExecute(o)
       \/ YieldToolResult
       \/ PushToolMessage
       \/ YieldDone

\* the consumer cancels the stream (or goes away) while tracked() is
\* suspended at a yield; nothing resumes tracked() after that
RouteCancel ==
    /\ rtPc = "running"
    /\ rtPos = Len(events)
    /\ pc # "returned"
    /\ rtPc' = "cancelled"
    /\ UNCHANGED << rtConv, rtPos, assistantContent, dbDown, dbVars,
                    loopVars, providerVars, serVars, sseVars, hookVars >>

\* route.ts:119-121: the insert tracked() is about to make throws, and so
\* do the later ones
InsertsFail ==
    /\ rtPc = "running"
    /\ ~dbDown
    /\ rtPos < Len(events)
    /\ TrackedRows(events[rtPos + 1], ContentAfter(events[rtPos + 1], assistantContent)) # <<>>
    /\ dbDown' = TRUE
    /\ UNCHANGED << rtPc, rtConv, rtPos, assistantContent, dbVars,
                    loopVars, providerVars, serVars, sseVars, hookVars >>

RouteNext ==
    \/ RouteStart
    \/ Track
    \/ LoopStep
    \/ RouteCancel
    \/ InsertsFail

RouteSpec == RouteInit /\ [][RouteNext]_vars

----------------------------------------------------------------------------
(* C29: tool calls and tool results in the message store *)

\* the request is over: refused, cancelled, or streamed to its end
RequestEnded ==
    \/ rtPc \in { "failed", "cancelled" }
    \/ rtPc = "running" /\ pc = "returned" /\ rtPos = Len(events)

\* the tool-role rows after row i that carry the call id
ResultsAfter(i, id) ==
    { j \in (i + 1) .. Len(dbMessages) :
        /\ dbMessages[j].role = "tool"
        /\ dbMessages[j].toolCallId = id
        /\ dbMessages[j].conversationId = dbMessages[i].conversationId }

\* no call id was used twice by the provider
UniqueCallIds ==
    \A i, j \in DOMAIN events :
        (i # j /\ events[i].type = "tool_call" /\ events[j].type = "tool_call")
            => events[i].call.id # events[j].call.id

\* C29: after every request handled by the chat route, however it ends, for
\* every persisted assistant message with non-empty toolCalls each of its
\* call ids is the toolCallId of exactly one later tool-role message of the
\* same conversation, in the order of the calls.  Call ids are taken to be
\* unique, as those the Ollama provider makes are.
C29_CallsPaired ==
    (RequestEnded /\ UniqueCallIds) =>
        \A i \in DOMAIN dbMessages :
            LET calls == dbMessages[i].toolCalls
            IN /\ \A k \in DOMAIN calls : Cardinality(ResultsAfter(i, calls[k].id)) = 1
               /\ \A k, l \in DOMAIN calls :
                    k < l => \A a \in ResultsAfter(i, calls[k].id) :
                                \A b \in ResultsAfter(i, calls[l].id) : a < b

\* the stream was cancelled after the tool_call event of c1 was handled: the
\* assistant message with the call is stored, no tool message follows it
C29_Witness ==
    /\ rtPc = "cancelled"
    /\ ~dbDown
    /\ Len(dbMessages) = 2
    /\ dbMessages[2].role = "assistant"
    /\ dbMessages[2].toolCalls = << ToolCall("c1", "bash") >>
    /\ Last(events) = ToolCallEvent(ToolCall("c1", "bash"))

\* the request ran to its end, but the insert of the tool result had failed
C29_WitnessInsertFailed ==
    /\ rtPc = "running"
    /\ pc = "returned"
    /\ rtPos = Len(events)
    /\ dbDown
    /\ Len(dbMessages) = 2
    /\ dbMessages[2].toolCalls = << ToolCall("c1", "bash") >>

----------------------------------------------------------------------------
(* C33: the context while a provider stream is open *)

\* C33: while a provider turn's event stream is open - from the call of
\* provider.chat until the stream ends, throws or is left at tool_calls - the
\* loop's context is the one the call was given and is not modified; a step
\* that changes the context is made outside an open stream and appends to it.
C33_ContextStable ==
    [][/\ pc = "stream" => (Ctx = Last(chatLog) /\ heap' = heap /\ ctxRef' = ctxRef)
       /\ (ctxRef # "none" /\ heap' # heap) =>
            /\ pc \notin { "stream", "loop" }
            /\ ctxRef' = ctxRef
            /\ IsPrefix(Ctx, heap'[ctxRef])
            /\ Len(heap'[ctxRef]) = Len(Ctx) + 1]_vars

\* the second turn's stream is open and has yielded an event; the context is
\* the one of the first turn plus the messages appended between the turns
C33_Witness ==
    /\ pc = "stream"
    /\ Len(chatLog) = 2
    /\ provided[2] # <<>>
    /\ Ctx = chatLog[2]
    /\ Len(chatLog[2]) > Len(chatLog[1])

----------------------------------------------------------------------------
(* C34: the machine loses, duplicates and reorders no character *)

\* the characters of a content, each with the segment it belongs to
Labelled(content, seg) == [i \in DOMAIN content |-> << content[i], seg >>]

RECURSIVE EmittedChars(_)
\* the characters of the events yielded, in order, text_delta characters
\* labelled outside and thinking characters labelled inside
EmittedChars(segs) ==
    IF segs = <<>> THEN <<>>
    ELSE Labelled(Head(segs).content,
                  IF Head(segs).type = "thinking" THEN "inside" ELSE "outside")
         \o EmittedChars(Tail(segs))

\* the characters held in the accumulator, labelled with the segment in
\* which the partial sentinel began
HeldChars ==
    Labelled(machine.buf, IF machine.state = "maybe_close" THEN "inside" ELSE "outside")

RECURSIVE Explains(_, _, _)
\* out is the input with some sentinels removed - an open sentinel met
\* outside, a close sentinel met inside, each switching the segment - and
\* every other character kept once, in order, in the segment it is met in
Explains(input, out, seg) ==
    IF input = <<>> THEN out = <<>>
    ELSE \/ /\ out # <<>>
            /\ Head(out) = << Head(input), seg >>
            /\ Explains(Tail(input), Tail(out), seg)
         \/ /\ seg = "outside"
            /\ StartsWith(input, OPEN)
            /\ Explains(SubSeq(input, Len(OPEN) + 1, Len(input)), out, "inside")
         \/ /\ seg = "inside"
            /\ StartsWith(input, CLOSE)
            /\ Explains(SubSeq(input, Len(CLOSE) + 1, Len(input)), out, "outside")

\* the number of characters of the input that sentinels took
SentinelChars == tagPos - Len(EmittedChars(segments)) - Len(machine.buf)

\* C34: the tag machine loses, duplicates and reorders no character: for
\* every chunk sequence the contents emitted, in emission order, followed by
\* the characters held in the accumulator, are the input fed so far with the
\* recognized sentinels removed, and the characters of a dead start are in
\* the segment (visible or thinking) in which the dead start began.
C34_NoCharacterLost ==
    /\ Explains(SubSeq(TagContent, 1, tagPos), EmittedChars(segments) \o HeldChars, "outside")
    /\ SentinelChars >= 0

\* <thix was fed in two chunks: the dead start <thi and the x are visible
\* text, nothing is held
C34_Witness ==
    /\ tagTokens = << << "<", "t", "h", "i" >>, << "x" >> >>
    /\ tagPos = 5
    /\ machine = InitialMachine
    /\ segments = << TextDeltaEvent(<< "<", "t", "h", "i", "x" >>) >>

\* inside a think block a dead start of the close sentinel went to thinking
C34_WitnessInside ==
    /\ tagTokens = << OPEN, << "<" >>, << "x" >>, CLOSE >>
    /\ tagPos = Len(TagContent)
    /\ segments = << ThinkingEvent(<< "<", "x" >>) >>

----------------------------------------------------------------------------
(* C40: the accumulator of the tag machine *)

\* s is a non-empty proper prefix of t
ProperPrefix(s, t) == s # <<>> /\ Len(s) < Len(t) /\ StartsWith(t, s)

\* the chunks that may be fed next
NextChunks == { SubSeq(TagContent, tagPos + 1, tagPos + n) : n \in 0 .. (Len(TagContent) - tagPos) }

\* C40: in every reachable state of the tag machine the accumulator is empty
\* when the state is outside or inside, a non-empty proper prefix of <think>
\* when the state is maybe_open and a non-empty proper prefix of </think>
\* when the state is maybe_close; it is never longer than 7 characters; and
\* the visible and the thinking buffer of processThinkChunk are never both
\* non-empty.
C40_Accumulator ==
    /\ machine.state \in { "outside", "inside" } => machine.buf = <<>>
    /\ machine.state = "maybe_open" => ProperPrefix(machine.buf, OPEN)
    /\ machine.state = "maybe_close" => ProperPrefix(machine.buf, CLOSE)
    /\ machine.state \in { "outside", "inside", "maybe_open", "maybe_close" }
    /\ Len(machine.buf) <= 7
    /\ \A chunk \in NextChunks :
         LET r == StepChars(ChunkStart(machine), chunk)
         IN ~(r.outside # <<>> /\ r.thinking # <<>>)

\* the close sentinel is held but for its last character
C40_Witness ==
    /\ machine.state = "maybe_close"
    /\ machine.buf = << "<", "/", "t", "h", "i", "n", "k" >>
    /\ segments # <<>>


----------------------------------------------------------------------------
(* C31: getConversationWithMessages and the insert order *)

\* C31: getConversationWithMessages returns the messages of a conversation
\* in the order in which saveMessage inserted them, for every sequence of
\* saveMessage calls, calls that obtain the same createdAt included.
C31_InsertOrder ==
    (dbLast.op = "getConversationWithMessages" /\ dbLast.ok) => dbReturned = RowsOf(dbLast.id)

\* two rows saved within one millisecond came back in the other order
C31_Witness ==
    /\ dbLast = [op |-> "getConversationWithMessages", id |-> 1, ok |-> TRUE]
    /\ Len(dbMessages) = 2
    /\ dbMessages[1].conversationId = 1
    /\ dbMessages[2].conversationId = 1
    /\ dbMessages[1].createdAt = dbMessages[2].createdAt
    /\ dbReturned = << dbMessages[2], dbMessages[1] >>
    /\ dbMessages[1] # dbMessages[2]

\* rows saved at increasing times come back in the insert order
C31_IncreasingTimes ==
    (/\ dbLast.op = "getConversationWithMessages"
     /\ \A i, j \in DOMAIN dbMessages : i < j => dbMessages[i].createdAt < dbMessages[j].createdAt)
    => dbReturned = RowsOf(dbLast.id)


----------------------------------------------------------------------------
(* C36: the final assistant row and the text event *)

\* the assistant text rows of the store (route.ts:118)
FinalRows == SelectSeq(dbMessages, LAMBDA r : r.role = "assistant" /\ r.toolCalls = <<>>)

\* the text events runLoop emitted (loop.ts:48)
TextEvents == SelectSeq(events, LAMBDA ev : ev.type = "text")

\* C36: for every request the chat route persists a final assistant text row
\* if and only if runLoop emitted a text event in that request, and the
\* persisted content equals the content of that text event.
C36_RowIffText ==
    RequestEnded =>
        /\ Len(FinalRows) = Len(TextEvents)
        /\ \A i \in DOMAIN FinalRows : FinalRows[i].content = TextEvents[i].content

\* the provider threw after a text_delta: the request ran to its done event
\* with working inserts, no text event was emitted, and the route stored the
\* partial text as the assistant row
C36_Witness ==
    /\ rtPc = "running"
    /\ pc = "returned"
    /\ rtPos = Len(events)
    /\ ~dbDown
    /\ TextEvents = <<>>
    /\ Len(FinalRows) = 1
    /\ FinalRows[1].content = << "a" >>
    /\ \E i \in DOMAIN events : events[i].type = "error"

\* a request streamed to its end with working inserts and no error event has
\* the row exactly when it has the text event
C36_WithoutError ==
    (/\ rtPc = "running"
     /\ pc = "returned"
     /\ rtPos = Len(events)
     /\ ~dbDown
     /\ \A i \in DOMAIN events : events[i].type # "error")
    => /\ Len(FinalRows) = Len(TextEvents)
       /\ \A i \in DOMAIN FinalRows : FinalRows[i].content = TextEvents[i].content


----------------------------------------------------------------------------
(* C35: rows are written before their events are handed on *)

\* the text_delta contents among the first n events since the last tool_call
RECURSIVE TextSince(_)
TextSince(n) ==
    IF n = 0 THEN <<>>
    ELSE CASE events[n].type = "tool_call" -> <<>>
           [] events[n].type = "text_delta" -> TextSince(n - 1) \o events[n].content
           [] OTHER -> TextSince(n - 1)

\* the row that belongs to the n-th event, if any
RowOf(n) ==
    LET ev == events[n]
    IN CASE ev.type = "tool_call" ->
              << Stamped(MessageRow(rtConv, "assistant", <<>>, << ev.call >>, ""), 0) >>
         [] ev.type = "tool_result" ->
              << Stamped(MessageRow(rtConv, "tool", << ev.result >>, <<>>, ev.callId), 0) >>
         [] ev.type = "done" /\ TextSince(n) # <<>> ->
              << Stamped(MessageRow(rtConv, "assistant", TextSince(n), <<>>, ""), 0) >>
         [] OTHER -> <<>>

\* the rows that belong to the first n events
RECURSIVE RowsUpTo(_)
RowsUpTo(n) == IF n = 0 THEN <<>> ELSE RowsUpTo(n - 1) \o RowOf(n)

\* C35: in the chat route every row is written before the corresponding
\* event is handed to the adapter: once tracked() has yielded a tool_call,
\* tool_result or done event, the saveMessage for that event (for done: the
\* final assistant row) has been attempted; with working inserts the store
\* holds exactly the rows of the events handed on, so the stream closing at
\* done loses no write.  After inserts began to fail the store holds the rows
\* written before that.
C35_WrittenBeforeYield ==
    rtPc \in { "running", "cancelled" } =>
        /\ Len(dbMessages) >= 1
        /\ LET rows == SubSeq(dbMessages, 2, Len(dbMessages))
           IN IF dbDown THEN IsPrefix(rows, RowsUpTo(rtPos)) ELSE rows = RowsUpTo(rtPos)

\* a request streamed to its done event: the rows of a tool call, its result
\* and the final text are stored when done is handed on
C35_Witness ==
    /\ rtPc = "running"
    /\ ~dbDown
    /\ pc = "returned"
    /\ rtPos = Len(events)
    /\ events[rtPos].type = "done"
    /\ Len(dbMessages) = 4
    /\ dbMessages[2].toolCalls # <<>>
    /\ dbMessages[3].role = "tool"
    /\ dbMessages[4].role = "assistant"
    /\ dbMessages[4].content = << "a" >>


----------------------------------------------------------------------------
(* The useAgentChat hook (hooks/use-agent-chat.ts)                         *)
(*                                                                         *)
(* One mounted instance without an initial conversation.  sendMessage may  *)
(* be called at any moment.  The response body is read frame by frame; the *)
(* buffer of parseSSE makes the result independent of how the frames are   *)
(* cut into chunks.  The fetch may reject or answer with a status that is  *)
(* not ok; a read of the body may reject (connection lost, abort).         *)

MaxSends == 3    \* most calls of sendMessage
MaxReads == 2    \* most frames read from one response body

\* route.ts:88
ConversationEvent(id) == [type |-> "conversation", conversationId |-> id]

\* ChatMessage; ids are fresh UUIDs
ChatMessage(id, role, content) == [id |-> id, role |-> role, content |-> content]

\* the guard lets every call pass
Busy_Never(st) == FALSE

\* use-agent-chat.ts:191: statusRef.current !== "ready"
Busy(st) == st # "ready"

\* the events a response body carries
BodyEvents == { TextDeltaEvent(<< "a" >>), TextEvent(<< "b" >>), ErrorEvent("boom"), DoneEvent }

\* the frames of a body: events as the adapter frames them, and a frame
\* whose JSON does not parse
BodyFrames == { encodeFrame(ev) : ev \in BodyEvents } \cup { "data: {oops\n\n" }

\* use-agent-chat.ts:113-124: the event of a frame, among the events known;
\* <<>> for a frame that yields none
ParseFrame(f, known) ==
    LET hits == { ev \in known : encodeFrame(ev) = f }
    IN IF hits = {} THEN <<>> ELSE << CHOOSE ev \in hits : TRUE >>

\* use-agent-chat.ts:261-275: what an event adds to the assistant content
AddedText(ev, receivedTextDelta) ==
    CASE ev.type = "text_delta" -> ev.content
      [] ev.type = "text" /\ ~receivedTextDelta -> ev.content
      [] OTHER -> <<>>

\* use-agent-chat.ts:297-305: the status after an event
StatusAfter(ev, st) ==
    CASE ev.type = "error" -> "error"
      [] ev.type = "done" -> "ready"
      [] OTHER -> st

\* use-agent-chat.ts:253-255: updateAssistant appending to content
UpdateAssistant(msgs, id, content) ==
    [k \in DOMAIN msgs |->
        IF msgs[k].id = id THEN [msgs[k] EXCEPT !.content = @ \o content] ELSE msgs[k]]

HookInit ==
    /\ LoopIdle
    /\ TagIdle
    /\ ChatIdle
    /\ NdIdle
    /\ SerIdle
    /\ SseIdle
    /\ DbIdle
    /\ RouteIdle
    /\ status = "ready"
    /\ chatMessages = <<>>
    /\ fetchCount = 0
    /\ invocations = <<>>
    /\ sendLog = <<>>

\* use-agent-chat.ts:189-227: sendMessage up to the fetch
SendMessage(text) ==
    /\ Len(sendLog) < MaxSends
    /\ IF Busy(status)
       THEN /\ sendLog' = Append(sendLog, "ignored")
            /\ UNCHANGED << status, chatMessages, fetchCount, invocations >>
       ELSE /\ sendLog' = Append(sendLog, "accepted")
            /\ chatMessages' =
                 Append(chatMessages, ChatMessage(Len(chatMessages) + 1, "user", << text >>))
            /\ status' = "submitted"
            /\ fetchCount' = fetchCount + 1
            /\ invocations' = Append(invocations, [pc |-> "fetch", assistantId |-> 0,
                                                    receivedTextDelta |-> FALSE, reads |-> 0])
    /\ UNCHANGED << loopVars, providerVars, serVars, sseVars, dbVars, routeVars >>

\* use-agent-chat.ts:228-238: the fetch rejects, or the response is not ok
\* or has no body
FetchFails(i) ==
    /\ invocations[i].pc = "fetch"
    /\ status' = "error"
    /\ invocations' = [invocations EXCEPT ![i].pc = "returned"]
    /\ UNCHANGED << chatMessages, fetchCount, sendLog,
                    loopVars, providerVars, serVars, sseVars, dbVars, routeVars >>

\* use-agent-chat.ts:240-251: the response arrived
FetchResolves(i) ==
    /\ invocations[i].pc = "fetch"
    /\ LET id == Len(chatMessages) + 1
       IN /\ chatMessages' = Append(chatMessages, ChatMessage(id, "assistant", <<>>))
          /\ invocations' = [invocations EXCEPT ![i].pc = "read", ![i].assistantId = id]
    /\ status' = "streaming"
    /\ UNCHANGED << fetchCount, sendLog,
                    loopVars, providerVars, serVars, sseVars, dbVars, routeVars >>

\* use-agent-chat.ts:105-124, 257-306: a frame is read and, when it carries
\* an event, handled
ReadFrame(i, f) ==
    /\ invocations[i].pc = "read"
    /\ invocations[i].reads < MaxReads
    /\ LET parsed == ParseFrame(f, BodyEvents)
           inv == [invocations[i] EXCEPT !.reads = @ + 1]
       IN IF parsed = <<>>
          THEN /\ invocations' = [invocations EXCEPT ![i] = inv]
               /\ UNCHANGED << status, chatMessages >>
          ELSE LET ev == parsed[1]
               IN /\ chatMessages' = UpdateAssistant(chatMessages, inv.assistantId,
                                                     AddedText(ev, inv.receivedTextDelta))
                  /\ status' = StatusAfter(ev, status)
                  /\ invocations' =
                       [invocations EXCEPT ![i] =
                          [inv EXCEPT !.receivedTextDelta = @ \/ ev.type = "text_delta",
                                      !.pc = IF ev.type \in { "error", "done" }
                                             THEN "returned" ELSE "read"]]
    /\ UNCHANGED << fetchCount, sendLog,
                    loopVars, providerVars, serVars, sseVars, dbVars, routeVars >>

\* use-agent-chat.ts:107, 127-142, 308-309: the body closed without done
BodyCloses(i) ==
    /\ invocations[i].pc = "read"
    /\ status' = "ready"
    /\ invocations' = [invocations EXCEPT ![i].pc = "returned"]
    /\ UNCHANGED << chatMessages, fetchCount, sendLog,
                    loopVars, providerVars, serVars, sseVars, dbVars, routeVars >>

\* use-agent-chat.ts:106, 257: reader.read() rejects; neither parseSSE nor
\* sendMessage catches, the promise of sendMessage rejects
ReadFails(i) ==
    /\ invocations[i].pc = "read"
    /\ invocations' = [invocations EXCEPT ![i].pc = "thrown"]
    /\ UNCHANGED << status, chatMessages, fetchCount, sendLog,
                    loopVars, providerVars, serVars, sseVars, dbVars, routeVars >>

HookNext ==
    \/ SendMessage("hi")
    \/ \E i \in DOMAIN invocations : FetchFails(i)
    \/ \E i \in DOMAIN invocations : FetchResolves(i)
    \/ \E i \in DOMAIN invocations, f \in BodyFrames : ReadFrame(i, f)
    \/ \E i \in DOMAIN invocations : BodyCloses(i)
    \/ \E i \in DOMAIN invocations : ReadFails(i)

HookSpec == HookInit /\ [][HookNext]_vars


----------------------------------------------------------------------------
(* C32, C38, C39: the status of the hook and sendMessage *)

\* the calls of sendMessage whose request is in flight
InFlight == { i \in DOMAIN invocations : invocations[i].pc \in { "fetch", "read" } }

\* C32: while a chat request of a useAgentChat instance is in flight (status
\* submitted or streaming) a further sendMessage is a no-op: it appends no
\* user message and issues no fetch; at most one /api/chat request is in
\* flight per hook instance.
C32_OneRequest ==
    [][/\ Cardinality(InFlight) <= 1
       /\ (status \in { "submitted", "streaming" } /\ sendLog' # sendLog) =>
            /\ chatMessages' = chatMessages
            /\ fetchCount' = fetchCount
            /\ invocations' = invocations
            /\ status' = status]_vars

\* a sendMessage made while the first response was streaming was ignored
C32_Witness ==
    /\ status = "streaming"
    /\ InFlight = { 1 }
    /\ sendLog = << "accepted", "ignored" >>
    /\ fetchCount = 1
    /\ Len(chatMessages) = 2

\* C38: after an accepted sendMessage, once the response stream has ended
\* (done event, error event, body closing without done, or a failing read),
\* the status of useAgentChat is ready or error, no longer submitted or
\* streaming.
C38_StatusSettles ==
    (invocations # <<>> /\ InFlight = {}) => status \in { "ready", "error" }

\* a read of the body failed: the call of sendMessage is over, the status is
\* still streaming
C38_Witness ==
    /\ Len(invocations) = 1
    /\ invocations[1].pc = "thrown"
    /\ status = "streaming"

\* when no read failed, the status settles
C38_WithoutReadFailure ==
    (invocations # <<>> /\ \A i \in DOMAIN invocations : invocations[i].pc = "returned")
        => status \in { "ready", "error" }

\* C39: a useAgentChat instance whose status became error can still send: a
\* later sendMessage appends the user message and issues a new /api/chat
\* request.
C39_SendAfterError ==
    [][(status = "error" /\ sendLog' # sendLog) =>
          /\ fetchCount' = fetchCount + 1
          /\ Len(chatMessages') = Len(chatMessages) + 1
          /\ Last(chatMessages').role = "user"]_vars

\* the fetch of the first send failed; the second send was ignored
C39_Witness ==
    /\ status = "error"
    /\ sendLog = << "accepted", "ignored" >>
    /\ fetchCount = 1
    /\ Len(chatMessages) = 1

\* after done (status ready) a later send is accepted
C39_SendAfterReady ==
    [][(status = "ready" /\ sendLog' # sendLog) =>
          /\ fetchCount' = fetchCount + 1
          /\ Len(chatMessages') = Len(chatMessages) + 1
          /\ Last(chatMessages').role = "user"]_vars


----------------------------------------------------------------------------
(* C37: the text the hook shows and the row the route stored *)

\* the events of the loop yielded so far
KnownEvents == { events[k] : k \in DOMAIN events }

\* use-agent-chat.ts:257-306: the assistant message of the hook after the
\* frames of the first n events of the request were read; the hook stops
\* reading at an error or done event
RECURSIVE HookAfter(_)
HookAfter(n) ==
    IF n = 0 THEN [content |-> <<>>, receivedTextDelta |-> FALSE, status |-> "streaming"]
    ELSE LET m == HookAfter(n - 1)
             parsed == ParseFrame(encodeFrame(events[n]), KnownEvents)
         IN IF m.status # "streaming" \/ parsed = <<>> THEN m
            ELSE [content |-> m.content \o AddedText(parsed[1], m.receivedTextDelta),
                  receivedTextDelta |-> m.receivedTextDelta \/ parsed[1].type = "text_delta",
                  status |-> StatusAfter(parsed[1], m.status)]

\* the content of the final assistant row of the request, <<>> without one
FinalRowContent == IF FinalRows = <<>> THEN <<>> ELSE Last(FinalRows).content

\* the route streamed its events up to done and the hook read them up to done
ReachedDone ==
    /\ rtPc = "running"
    /\ rtPos = Len(events)
    /\ rtPos > 0
    /\ events[rtPos].type = "done"
    /\ HookAfter(rtPos).status = "ready"

\* C37: for every event sequence the chat route can stream for one request,
\* the assistant text that useAgentChat has accumulated when it reaches done
\* (ChatMessage.content) equals the content of the final assistant row that
\* the route persisted for that request.
C37_ContentIsRow == ReachedDone => HookAfter(rtPos).content = FinalRowContent

\* text before a tool call and text after it: the hook shows both, the row
\* holds the text after the call
C37_Witness ==
    /\ ReachedDone
    /\ ~dbDown
    /\ HookAfter(rtPos).content = << "a", "a" >>
    /\ FinalRowContent = << "a" >>

\* in a request without tool calls and with working inserts the two agree
C37_WithoutToolCalls ==
    (ReachedDone /\ ~dbDown /\ \A k \in DOMAIN events : events[k].type # "tool_call")
        => HookAfter(rtPos).content = FinalRowContent

====
